---- MODULE Spec2Model ----
(***************************************************************************)
(* Model of sophoset/utils/lmdb_storage.py: LMDBStorage, a pickle+zlib     *)
(* object store over one LMDB environment directory.                       *)
(*                                                                         *)
(* Python values are records [t |-> type name, s |-> payload], so that a   *)
(* value of any type can be compared with any other.  Byte strings, such   *)
(* as the pickle and zlib streams kept in the database, are sequences of   *)
(* numbers 0..255.                                                         *)
(* A call's outcome is [exc |-> exception name or "", val |-> result].     *)
(***************************************************************************)
EXTENDS Integers, Sequences, FiniteSets, TLC

VARIABLES
    disk,        \* content of the main database of the directory db_path: key bytes -> value bytes
    env,         \* self.env: "open" or "None"
    compress,    \* self.compress
    op,          \* the last call made on the store: name and arguments
    ret,         \* its outcome
    written,     \* history: key string -> the value of the put still in effect, or Absent
    dataset,     \* the dataset adapter handed to the exporter: what the Hub serves, and
                 \* its fields subset, split and dataset
    trace,       \* what the last export did, in order: adapter calls, I/O, writes, log lines
    files        \* content of the JSON file in the output directory

\* The variables of the exporter.
xvars == <<dataset, trace, files>>

vars == <<disk, env, compress, op, ret, written, dataset, trace, files>>

----------------------------------------------------------------------------
(* Bounds *)

\* Number of distinct one-letter ASCII keys 'a', 'b', ... offered to the calls.
NumAsciiKeys == 1

\* Largest number of rows in one (subset, split) partition of a dataset.
NumRows == 2

\* Largest number of options in a list handed to get_formatted_options.
MaxOptions == 30

----------------------------------------------------------------------------
(* Python values *)

None_ == [t |-> "NoneType", s |-> <<>>]
PyStr(cs) == [t |-> "str", s |-> cs]
PyInt(n) == [t |-> "int", s |-> <<n>>]
\* A function defined by a lambda expression.
LambdaObj == [t |-> "function", s |-> <<>>]
\* No value: the history's marker for a key that no put in effect has written.
Absent == [t |-> "absent", s |-> <<>>]

Ok(v) == [exc |-> "", val |-> v]
Raise(e) == [exc |-> e, val |-> None_]

\* Code points: 'a'.. (one byte in UTF-8) and U+00E9 (two bytes).
AsciiChars == 97 .. (97 + NumAsciiKeys - 1)
KeyChars == AsciiChars \cup {233}

\* Key strings offered to the calls: the empty string and the one-character strings.
KeyStrs == {<<>>} \cup {<<c>> : c \in KeyChars}

\* Key arguments: strings, and a value that is not a string.
KeyArgs == {PyStr(cs) : cs \in KeyStrs} \cup {PyInt(1)}

\* The values that can be pickled: two integers, as found in JSON files too.
Ints == {PyInt(1), PyInt(2)}

\* Values handed to put.
ValueArgs == Ints \cup {LambdaObj}

Defaults == {None_, PyStr(<<100>>)}

----------------------------------------------------------------------------
(* str.encode('utf-8') and bytes.decode('utf-8') *)

EncodeChar(c) ==
    IF c < 128 THEN <<c>>
    ELSE IF c < 2048 THEN <<192 + (c \div 64), 128 + (c % 64)>>
    ELSE IF c < 65536 THEN <<224 + (c \div 4096), 128 + ((c \div 64) % 64), 128 + (c % 64)>>
    ELSE <<240 + (c \div 262144), 128 + ((c \div 4096) % 64),
           128 + ((c \div 64) % 64), 128 + (c % 64)>>

\* The bytes of the characters cs[lo .. hi], one half after the other.
RECURSIVE EncodeRange(_, _, _)
EncodeRange(cs, lo, hi) ==
    IF lo > hi THEN <<>>
    ELSE IF lo = hi THEN EncodeChar(cs[lo])
    ELSE EncodeRange(cs, lo, (lo + hi) \div 2) \o EncodeRange(cs, (lo + hi) \div 2 + 1, hi)

EncodeChars(cs) == EncodeRange(cs, 1, Len(cs))

IsSurrogate(c) == c \in 55296 .. 57343

\* key.encode('utf-8'): a non-string has no encode method, a lone surrogate cannot be encoded.
str_encode(key) ==
    IF key.t # "str" THEN Raise("AttributeError")
    ELSE IF \E i \in 1 .. Len(key.s) : IsSurrogate(key.s[i]) THEN Raise("UnicodeEncodeError")
    ELSE Ok(EncodeChars(key.s))

\* The character whose bytes start at b[i].
DecodeChar(b, i) ==
    IF b[i] < 128 THEN b[i]
    ELSE IF b[i] < 224 THEN (b[i] - 192) * 64 + (b[i + 1] - 128)
    ELSE IF b[i] < 240 THEN (b[i] - 224) * 4096 + (b[i + 1] - 128) * 64 + (b[i + 2] - 128)
    ELSE (b[i] - 240) * 262144 + (b[i + 1] - 128) * 4096 + (b[i + 2] - 128) * 64
         + (b[i + 3] - 128)

\* b.decode('utf-8') for bytes that str.encode wrote: one character for each byte that
\* is not a continuation byte.
bytes_decode(b) ==
    LET IsStart(i) == b[i] < 128 \/ b[i] >= 192
        starts == SelectSeq([i \in 1 .. Len(b) |-> i], IsStart)
    IN [k \in 1 .. Len(starts) |-> DecodeChar(b, starts[k])]

----------------------------------------------------------------------------
(* pickle and zlib: byte strings are sequences of numbers 0..255 *)

\* The number n in k bytes, least significant byte first.
RECURSIVE LittleEndian(_, _)
LittleEndian(n, k) ==
    IF k = 0 THEN <<>> ELSE <<n % 256>> \o LittleEndian(n \div 256, k - 1)

\* The number held in the bytes data[pos .. pos + k - 1], least significant byte first.
RECURSIVE ReadLittleEndian(_, _, _)
ReadLittleEndian(data, pos, k) ==
    IF k = 0 THEN 0 ELSE data[pos] + 256 * ReadLittleEndian(data, pos + 1, k - 1)

\* The strings pickle writes for an instance of QAData: its class and its fields.
QADataModule ==
    <<115, 111, 112, 104, 111, 115, 101, 116, 46, 99, 111, 114, 101, 46, 98, 97, 115,
      101, 95, 104, 102, 95, 100, 97, 116, 97, 115, 101, 116>>
QADataName == <<81, 65, 68, 97, 116, 97>>
QADataFields ==
    << <<107, 101, 121>>, <<105, 109, 97, 103, 101, 115>>,
       <<109, 101, 116, 97, 100, 97, 116, 97>> >>

\* Whether pickle can write value: a lambda has no importable name, and neither has a
\* container that holds one.
RECURSIVE Picklable(_)
Picklable(value) ==
    CASE value.t \in {"NoneType", "int", "str", "bytes"} -> TRUE
      [] value.t \in {"list", "QAData"} ->
            \A i \in 1 .. Len(value.s) : Picklable(value.s[i])
      [] value.t = "dict" ->
            \A i \in 1 .. Len(value.s) : Picklable(value.s[i][1]) /\ Picklable(value.s[i][2])
      [] OTHER -> FALSE

\* The opcodes of protocol 5 that write value (no object occurs twice, so none is
\* fetched from the memo).
RECURSIVE pickle_save(_)
RECURSIVE pickle_save_all(_)
RECURSIVE pickle_save_items(_)
pickle_save_all(values) ==
    IF values = <<>> THEN <<>> ELSE pickle_save(Head(values)) \o pickle_save_all(Tail(values))
pickle_save_items(items) ==
    IF items = <<>> THEN <<>>
    ELSE pickle_save(Head(items)[1]) \o pickle_save(Head(items)[2]) \o pickle_save_items(Tail(items))
pickle_save(value) ==
    CASE value.t = "NoneType" -> <<78>>
      [] value.t = "int" ->
            IF value.s[1] < 256 THEN <<75, value.s[1]>>
            ELSE <<77>> \o LittleEndian(value.s[1], 2)
      [] value.t = "str" ->
            <<140, Len(EncodeChars(value.s))>> \o EncodeChars(value.s) \o <<148>>
      [] value.t = "bytes" -> <<67, Len(value.s)>> \o value.s \o <<148>>
      [] value.t = "list" ->
            <<93, 148>> \o
            (IF Len(value.s) = 0 THEN <<>>
             ELSE IF Len(value.s) = 1 THEN pickle_save(value.s[1]) \o <<97>>
             ELSE <<40>> \o pickle_save_all(value.s) \o <<101>>)
      [] value.t = "dict" ->
            <<125, 148>> \o
            (IF Len(value.s) = 0 THEN <<>>
             ELSE IF Len(value.s) = 1 THEN pickle_save_items(value.s) \o <<115>>
             ELSE <<40>> \o pickle_save_items(value.s) \o <<117>>)
      [] value.t = "QAData" ->
            pickle_save([t |-> "str", s |-> QADataModule]) \o pickle_save([t |-> "str", s |-> QADataName])
            \o <<147, 148, 41, 129, 148, 125, 148, 40>>
            \o pickle_save_items([i \in 1 .. 3 |-> <<[t |-> "str", s |-> QADataFields[i]], value.s[i]>>])
            \o <<117, 98>>

\* pickle.dumps(value, protocol=HIGHEST_PROTOCOL): the opcodes and STOP, in a frame
\* when they take four bytes or more.
pickle_dumps(value) ==
    IF ~Picklable(value) THEN Raise("PicklingError")
    ELSE LET body == pickle_save(value) \o <<46>>
         IN Ok(<<128, 5>> \o
               (IF Len(body) >= 4 THEN <<149>> \o LittleEndian(Len(body), 8) ELSE <<>>)
               \o body)

\* The sum of the bytes data[lo .. hi], one half after the other.
RECURSIVE SumBytes(_, _, _)
SumBytes(data, lo, hi) ==
    IF lo > hi THEN 0
    ELSE IF lo = hi THEN data[lo]
    ELSE SumBytes(data, lo, (lo + hi) \div 2) + SumBytes(data, (lo + hi) \div 2 + 1, hi)

\* The sum of the bytes data[lo .. hi], each counted once for every byte from it to the
\* end of data.
RECURSIVE SumSums(_, _, _)
SumSums(data, lo, hi) ==
    IF lo > hi THEN 0
    ELSE IF lo = hi THEN (Len(data) - lo + 1) * data[lo]
    ELSE SumSums(data, lo, (lo + hi) \div 2) + SumSums(data, (lo + hi) \div 2 + 1, hi)

\* zlib.adler32(data) in four bytes, most significant first: a is 1 plus the sum of the
\* bytes, b the sum of the values a takes byte after byte, both modulo 65521; the
\* checksum is b * 65536 + a.
adler32_bytes(data) ==
    LET a == (1 + SumBytes(data, 1, Len(data))) % 65521
        b == (Len(data) + SumSums(data, 1, Len(data))) % 65521
    IN <<b \div 256, b % 256, a \div 256, a % 256>>

\* A stream as zlib.compress writes it, but for the checksum at its end.
zlib_compress_unchecked(data) ==
    <<120, 1, 1>> \o LittleEndian(Len(data), 2) \o LittleEndian(65535 - Len(data), 2)
    \o data \o <<0, 0, 0, 0>>

\* zlib.compress(data, level): the header, the data as one stored block (what level 0
\* writes; the other levels differ in the block only) and the Adler-32 checksum.
zlib_compress(data) ==
    <<120, 1, 1>> \o LittleEndian(Len(data), 2) \o LittleEndian(65535 - Len(data), 2)
    \o data \o adler32_bytes(data)

\* zlib.decompress(data): the header check, the stored block and the checksum.
zlib_decompress(data) ==
    IF Len(data) < 2 THEN Raise("zlib.error")
    ELSE IF data[1] % 16 # 8 \/ (data[1] * 256 + data[2]) % 31 # 0 THEN Raise("zlib.error")
    ELSE IF Len(data) < 7 \/ data[3] # 1 THEN Raise("zlib.error")
    ELSE LET n == ReadLittleEndian(data, 4, 2)
             raw == SubSeq(data, 8, 7 + n)
         IN IF ReadLittleEndian(data, 6, 2) # 65535 - n \/ Len(data) # 11 + n
            THEN Raise("zlib.error")
            ELSE IF SubSeq(data, 8 + n, 11 + n) # adler32_bytes(raw) THEN Raise("zlib.error")
            ELSE Ok(raw)

\* What the unpickler keeps on its stack besides values: the mark, a tuple, a class.
Mark == [t |-> "mark", s |-> <<>>]
EmptyTuple == [t |-> "tuple", s |-> <<>>]
Global(module, name) == [t |-> "type", s |-> <<module, name>>]

\* The position of the topmost mark on the stack, 0 when there is none.
RECURSIVE TopMark(_, _)
TopMark(stack, i) ==
    IF i = 0 THEN 0 ELSE IF stack[i] = Mark THEN i ELSE TopMark(stack, i - 1)

\* The values above the mark at position m, taken two by two as the items of a dict.
Pairs(stack, m) ==
    [i \in 1 .. ((Len(stack) - m) \div 2) |-> <<stack[m + 2 * i - 1], stack[m + 2 * i]>>]

\* The value of field in the state dict items, None when it is not there.
RECURSIVE StateField(_, _)
StateField(items, field) ==
    IF items = <<>> THEN [t |-> "NoneType", s |-> <<>>]
    ELSE IF Head(items)[1] = [t |-> "str", s |-> field] THEN Head(items)[2]
    ELSE StateField(Tail(items), field)

\* The unpickler: the opcode at pos is run on the stack, up to STOP.
RECURSIVE load(_, _, _)
load(data, pos, stack) ==
    LET n == Len(stack)
        top == stack[n]
        under == stack[n - 1]
        arg == data[pos + 1]
        m == TopMark(stack, n)
        push(v, k) == load(data, pos + k, Append(stack, v))
        replace(j, v, k) == load(data, pos + k, Append(SubSeq(stack, 1, n - j), v))
    IN
    IF pos > Len(data) THEN Raise("EOFError")
    ELSE CASE data[pos] = 128 ->
                IF pos + 1 > Len(data) THEN Raise("UnpicklingError")
                ELSE load(data, pos + 2, stack)
           [] data[pos] = 149 ->
                IF pos + 8 > Len(data) THEN Raise("UnpicklingError")
                ELSE IF pos + 8 + ReadLittleEndian(data, pos + 1, 8) > Len(data)
                THEN Raise("UnpicklingError")
                ELSE load(data, pos + 9, stack)
           [] data[pos] = 148 ->
                IF n = 0 THEN Raise("UnpicklingError") ELSE load(data, pos + 1, stack)
           [] data[pos] = 78 -> push([t |-> "NoneType", s |-> <<>>], 1)
           [] data[pos] = 75 ->
                IF pos + 1 > Len(data) THEN Raise("UnpicklingError")
                ELSE push([t |-> "int", s |-> <<arg>>], 2)
           [] data[pos] = 77 ->
                IF pos + 2 > Len(data) THEN Raise("UnpicklingError")
                ELSE push([t |-> "int", s |-> <<ReadLittleEndian(data, pos + 1, 2)>>], 3)
           [] data[pos] = 140 ->
                IF pos + 1 > Len(data) \/ pos + 1 + arg > Len(data)
                THEN Raise("UnpicklingError")
                ELSE push([t |-> "str",
                           s |-> bytes_decode(SubSeq(data, pos + 2, pos + 1 + arg))], 2 + arg)
           [] data[pos] = 67 ->
                IF pos + 1 > Len(data) \/ pos + 1 + arg > Len(data)
                THEN Raise("UnpicklingError")
                ELSE push([t |-> "bytes", s |-> SubSeq(data, pos + 2, pos + 1 + arg)], 2 + arg)
           [] data[pos] = 93 -> push([t |-> "list", s |-> <<>>], 1)
           [] data[pos] = 125 -> push([t |-> "dict", s |-> <<>>], 1)
           [] data[pos] = 41 -> push(EmptyTuple, 1)
           [] data[pos] = 40 -> push(Mark, 1)
           [] data[pos] = 97 ->
                IF n < 2 \/ under.t # "list" THEN Raise("UnpicklingError")
                ELSE replace(2, [under EXCEPT !.s = Append(under.s, top)], 1)
           [] data[pos] = 101 ->
                IF m < 2 \/ stack[m - 1].t # "list" THEN Raise("UnpicklingError")
                ELSE replace(n - m + 2,
                             [stack[m - 1] EXCEPT !.s = @ \o SubSeq(stack, m + 1, n)], 1)
           [] data[pos] = 115 ->
                IF n < 3 \/ stack[n - 2].t # "dict" THEN Raise("UnpicklingError")
                ELSE replace(3, [stack[n - 2] EXCEPT !.s = Append(@, <<under, top>>)], 1)
           [] data[pos] = 117 ->
                IF m < 2 \/ stack[m - 1].t # "dict" \/ (n - m) % 2 # 0
                THEN Raise("UnpicklingError")
                ELSE replace(n - m + 2, [stack[m - 1] EXCEPT !.s = @ \o Pairs(stack, m)], 1)
           [] data[pos] = 147 ->
                IF n < 2 \/ top.t # "str" \/ under.t # "str" THEN Raise("UnpicklingError")
                ELSE IF under.s # QADataModule THEN Raise("ModuleNotFoundError")
                ELSE IF top.s # QADataName THEN Raise("AttributeError")
                ELSE replace(2, Global(under.s, top.s), 1)
           [] data[pos] = 129 ->
                IF n < 2 THEN Raise("UnpicklingError")
                ELSE IF under.t # "type" \/ top.t # "tuple" THEN Raise("TypeError")
                ELSE replace(2, [t |-> "QAData", s |-> <<>>], 1)
           [] data[pos] = 98 ->
                IF n < 2 THEN Raise("UnpicklingError")
                ELSE IF under.t # "QAData" \/ top.t # "dict" THEN Raise("TypeError")
                ELSE replace(2, [under EXCEPT !.s =
                                    [i \in 1 .. 3 |-> StateField(top.s, QADataFields[i])]], 1)
           [] data[pos] = 46 ->
                IF n = 0 THEN Raise("UnpicklingError") ELSE Ok(top)
           [] OTHER -> Raise("UnpicklingError")

\* pickle.loads(data)
pickle_loads(data) == load(data, 1, <<>>)

\* The empty byte string.
EmptyBytes == <<>>

\* The exceptions _deserialize catches.
DeserializeCaught == {"zlib.error", "UnpicklingError", "TypeError"}

\* LMDBStorage._serialize
_serialize(self, value) ==
    LET data == pickle_dumps(value) IN
    IF data.exc # "" THEN data
    ELSE IF self.compress THEN Ok(zlib_compress(data.val))
    ELSE data

\* LMDBStorage._deserialize
_deserialize(self, data) ==
    IF data = EmptyBytes THEN Ok(None_)
    ELSE LET raw == IF self.compress THEN zlib_decompress(data) ELSE Ok(data)
             obj == IF raw.exc # "" THEN raw ELSE pickle_loads(raw.val)
         IN IF obj.exc \in DeserializeCaught THEN Ok(None_) ELSE obj

----------------------------------------------------------------------------
(* The LMDB transaction calls the store makes, on the main database db *)

\* txn.put as with overwrite=False: the value of an existing key is kept.
txn_put_keep(db, kb, data) ==
    IF kb = <<>> THEN Raise("BadValsizeError")
    ELSE Ok([x \in DOMAIN db \cup {kb} |-> IF x \in DOMAIN db THEN db[x] ELSE data])

\* txn.put(key, value): LMDB rejects an empty key; an existing key is overwritten.
txn_put(db, kb, data) ==
    IF kb = <<>> THEN Raise("BadValsizeError")
    ELSE Ok([x \in DOMAIN db \cup {kb} |-> IF x = kb THEN data ELSE db[x]])

\* txn.get(key): the stored bytes, or None (here EmptyBytes never is a stored value).
txn_get(db, kb) ==
    IF kb = <<>> THEN Raise("BadValsizeError")
    ELSE IF kb \in DOMAIN db THEN Ok([found |-> TRUE, data |-> db[kb]])
    ELSE Ok([found |-> FALSE, data |-> EmptyBytes])

\* txn.delete that reports the key but leaves its entry in the database.
txn_delete_keep(db, kb) ==
    IF kb = <<>> THEN Raise("BadValsizeError")
    ELSE Ok([deleted |-> kb \in DOMAIN db, db |-> db])

\* txn.delete that reports a deletion whether or not the key was there.
txn_delete_true(db, kb) ==
    IF kb = <<>> THEN Raise("BadValsizeError")
    ELSE Ok([deleted |-> TRUE, db |-> [x \in DOMAIN db \ {kb} |-> db[x]]])

\* txn.delete(key): whether the key was there, and the database without it.
txn_delete(db, kb) ==
    IF kb = <<>> THEN Raise("BadValsizeError")
    ELSE Ok([deleted |-> kb \in DOMAIN db,
             db |-> [x \in DOMAIN db \ {kb} |-> db[x]]])

\* txn.stat()['entries']
txn_stat_entries(db) == Cardinality(DOMAIN db)

\* A drop that removes nothing.
txn_drop_nothing(db) == db

\* txn.drop(self.db, delete=False): empties the database and keeps its handle.
txn_drop(db) == [x \in {} |-> EmptyBytes]

\* Byte strings in the order of LMDB's default comparison: bytewise, a prefix first.
RECURSIVE BytesLess(_, _)
BytesLess(a, b) ==
    IF b = <<>> THEN FALSE
    ELSE IF a = <<>> THEN TRUE
    ELSE IF Head(a) # Head(b) THEN Head(a) < Head(b)
    ELSE BytesLess(Tail(a), Tail(b))

\* for key, value in txn.cursor(): the keys in ascending order.
RECURSIVE SortedKeys(_)
SortedKeys(ks) ==
    IF ks = {} THEN <<>>
    ELSE LET m == CHOOSE x \in ks : \A y \in ks \ {x} : BytesLess(x, y)
         IN <<m>> \o SortedKeys(ks \ {m})

cursor_iter(db) == SortedKeys(DOMAIN db)

----------------------------------------------------------------------------
(* LMDBStorage: the methods.  self is [disk, env, compress]; a method that
   writes yields [disk |-> the database after the call, ret |-> its outcome]. *)

\* A type check that lets every key through.
isinstance_any(key) == TRUE

\* isinstance(key, str)
isinstance_str(key) == key.t = "str"

\* A begin that works on a closed store as well.
env_begin_open(self) == Ok(None_)

\* with self.env.begin(...): self.env is None once the store is closed.
env_begin(self) == IF self.env = "None" THEN Raise("AttributeError") ELSE Ok(None_)

\* put without its try/except: what the transaction raises reaches the caller.
put_uncaught(self, key, value) ==
    IF ~isinstance_str(key) THEN [disk |-> self.disk, ret |-> Raise("TypeError")]
    ELSE LET txn == env_begin(self)
             serialized == _serialize(self, value)
             kb == str_encode(key)
             w == IF kb.exc # "" THEN kb ELSE txn_put(self.disk, kb.val, serialized.val)
         IN IF txn.exc # "" THEN [disk |-> self.disk, ret |-> txn]
            ELSE IF serialized.exc # "" THEN [disk |-> self.disk, ret |-> serialized]
            ELSE IF w.exc # "" THEN [disk |-> self.disk, ret |-> Raise(w.exc)]
            ELSE [disk |-> w.val, ret |-> Ok(TRUE)]

\* LMDBStorage.put
put(self, key, value) ==
    IF ~isinstance_str(key) THEN [disk |-> self.disk, ret |-> Raise("TypeError")]
    ELSE LET txn == env_begin(self)
             serialized == _serialize(self, value)
             kb == str_encode(key)
             w == IF kb.exc # "" THEN kb ELSE txn_put(self.disk, kb.val, serialized.val)
         IN IF txn.exc # "" \/ serialized.exc # "" \/ w.exc # ""
            THEN [disk |-> self.disk, ret |-> Ok(FALSE)]
            ELSE [disk |-> w.val, ret |-> Ok(TRUE)]

\* LMDBStorage.get
get(self, key, default) ==
    IF ~isinstance_str(key) THEN Raise("TypeError")
    ELSE LET txn == env_begin(self)
             kb == str_encode(key)
             value_bytes == IF kb.exc # "" THEN kb ELSE txn_get(self.disk, kb.val)
         IN IF txn.exc # "" \/ value_bytes.exc # "" THEN Ok(default)
            ELSE IF ~value_bytes.val.found THEN Ok(default)
            ELSE LET value == _deserialize(self, value_bytes.val.data)
                 IN IF value.exc # "" THEN Ok(default) ELSE value

\* LMDBStorage.delete
delete(self, key) ==
    IF ~isinstance_str(key) THEN [disk |-> self.disk, ret |-> Raise("TypeError")]
    ELSE LET txn == env_begin(self)
             kb == str_encode(key)
             result == IF kb.exc # "" THEN kb ELSE txn_delete(self.disk, kb.val)
         IN IF txn.exc # "" \/ result.exc # ""
            THEN [disk |-> self.disk, ret |-> Ok(FALSE)]
            ELSE [disk |-> result.val.db, ret |-> Ok(result.val.deleted)]

\* LMDBStorage.count_keys
count_keys(self) ==
    IF env_begin(self).exc # "" THEN Ok(0) ELSE Ok(txn_stat_entries(self.disk))

\* LMDBStorage.has_key
has_key(self, key) ==
    IF ~isinstance_str(key) THEN Raise("TypeError")
    ELSE LET txn == env_begin(self)
             kb == str_encode(key)
             value_bytes == IF kb.exc # "" THEN kb ELSE txn_get(self.disk, kb.val)
         IN IF txn.exc # "" \/ value_bytes.exc # "" THEN Ok(FALSE)
            ELSE Ok(value_bytes.val.found)

\* get_keys walking the cursor backwards.
get_keys_backwards(self) ==
    IF env_begin(self).exc # "" THEN Ok(<<>>)
    ELSE LET cursor == cursor_iter(self.disk)
         IN Ok([i \in 1 .. Len(cursor) |-> bytes_decode(cursor[Len(cursor) + 1 - i])])

\* LMDBStorage.get_keys
get_keys(self) ==
    IF env_begin(self).exc # "" THEN Ok(<<>>)
    ELSE LET cursor == cursor_iter(self.disk)
         IN Ok([i \in 1 .. Len(cursor) |-> bytes_decode(cursor[i])])

\* The loop of all_items over the cursor's remaining keys: result is the dict so far.
RECURSIVE all_items_loop(_, _, _)
all_items_loop(self, cursor, result) ==
    IF cursor = <<>> THEN result
    ELSE LET key_str == bytes_decode(Head(cursor))
             value == _deserialize(self, self.disk[Head(cursor)])
         IN IF value.exc # ""
            THEN all_items_loop(self, Tail(cursor), result)
            ELSE all_items_loop(self, Tail(cursor),
                     [k \in DOMAIN result \cup {key_str} |->
                         IF k = key_str THEN value.val ELSE result[k]])

\* LMDBStorage.all_items: a dict, here a function from key strings to values.
all_items(self) ==
    IF env_begin(self).exc # "" THEN Ok(<<>>)
    ELSE Ok(all_items_loop(self, cursor_iter(self.disk), <<>>))

\* LMDBStorage.clear
clear(self) ==
    IF env_begin(self).exc # "" THEN [disk |-> self.disk, ret |-> Ok(FALSE)]
    ELSE [disk |-> txn_drop(self.disk), ret |-> Ok(TRUE)]

----------------------------------------------------------------------------
(* LMDBStorage.from_json.  A file is [kind, items]: kind "missing" (no such path),
   "directory", "binary" (bytes that are not UTF-8), "garbage" (text that is not JSON),
   "list" (JSON whose top level is an array), "object" (a JSON object, whose entries
   json.load yields as items, a sequence of <<key string, value>> with distinct keys). *)

File(kind, items) == [kind |-> kind, items |-> items]
NoFile == File("none", <<>>)

\* No check of the path before the file is opened.
is_file_unchecked(file) == TRUE

\* Path(file_path).is_file()
is_file(file) == file.kind \notin {"missing", "directory"}

\* json.load(open(file_path, 'r', encoding='utf-8'))
json_load(file) ==
    IF file.kind = "missing" THEN Raise("FileNotFoundError")
    ELSE IF file.kind = "directory" THEN Raise("IsADirectoryError")
    ELSE IF file.kind = "binary" THEN Raise("UnicodeDecodeError")
    ELSE IF file.kind = "garbage" THEN Raise("JSONDecodeError")
    ELSE Ok(file)

\* for key, value in data.items(): self.put(str(key), value).  The outcomes of the
\* puts are kept in results, which from_json itself does not look at.
RECURSIVE from_json_loop(_, _, _)
from_json_loop(self, items, results) ==
    IF items = <<>> THEN [disk |-> self.disk, results |-> results]
    ELSE LET r == put(self, PyStr(Head(items)[1]), Head(items)[2])
         IN from_json_loop([self EXCEPT !.disk = r.disk], Tail(items), Append(results, r.ret))

\* LMDBStorage.from_json; cleared is the outcome of the clear() it made, if any.
from_json(self, file, clear_existing) ==
    IF ~is_file(file)
    THEN [disk |-> self.disk, ret |-> Raise("FileNotFoundError"),
          cleared |-> FALSE, results |-> <<>>]
    ELSE LET data == json_load(file)
             c == IF clear_existing THEN clear(self) ELSE [disk |-> self.disk, ret |-> Ok(FALSE)]
             loop == from_json_loop([self EXCEPT !.disk = c.disk], data.val.items, <<>>)
         IN IF data.exc = "JSONDecodeError"
            THEN [disk |-> self.disk, ret |-> Raise("JSONDecodeError"),
                  cleared |-> FALSE, results |-> <<>>]
            ELSE IF data.exc # ""
            THEN [disk |-> self.disk, ret |-> Ok(FALSE), cleared |-> FALSE, results |-> <<>>]
            ELSE IF data.val.kind # "object"
            THEN [disk |-> c.disk, ret |-> Ok(FALSE), cleared |-> c.ret.val, results |-> <<>>]
            ELSE [disk |-> loop.disk, ret |-> Ok(TRUE),
                  cleared |-> c.ret.val, results |-> loop.results]

\* LMDBStorage.close
close(self) == "None"

\* LMDBStorage.__init__ / _setup_db on the directory of an earlier store.
__init__(config) == [env |-> "open", compress |-> config.compress]

----------------------------------------------------------------------------
(* BaseHFDataset: the adapter.  hub is what the Hugging Face Hub serves for the dataset:
   subsets, the outcome of get_dataset_config_names; splits[subset], the outcome of
   get_dataset_split_names; parts[<<subset, split>>] = [load, rows], where load is the
   exception load_dataset(...)[split] raises ("" for none) and rows holds, for each raw
   row, what extract_row_data makes of it. *)

\* The characters of names and keys.
Slash == <<47>>
NoneText == <<78, 111, 110, 101>>
DefaultSubset == <<100, 101, 102, 97, 117, 108, 116>>
Train == <<116, 114, 97, 105, 110>>
Test == <<116, 101, 115, 116>>

\* str(n) for n >= 0
RECURSIVE int_str(_)
int_str(n) == IF n < 10 THEN <<48 + n>> ELSE int_str(n \div 10) \o <<48 + (n % 10)>>

\* format(v) inside an f-string, for a string, None and an integer
format(v) ==
    IF v.t = "str" THEN v.s ELSE IF v.t = "int" THEN int_str(v.s[1]) ELSE NoneText

List(values) == [t |-> "list", s |-> values]
Dict(items) == [t |-> "dict", s |-> items]
Bytes(b) == [t |-> "bytes", s |-> b]
\* A PIL image in memory, of one pixel value.
PILImage(pixel) == [t |-> "Image", s |-> <<pixel>>]
\* A PIL image of size 0 by 0, which cannot be saved as JPEG.
EmptyImage == [t |-> "Image", s |-> <<>>]
\* The path 'x' of an image file; no such file exists.
MissingPath == PyStr(<<120>>)

\* QAData(key=..., images=..., metadata=...): of the fields of the dataclass, the three
\* the export looks at or that decide whether the record can be written.
QAData(key, images, metadata) == [t |-> "QAData", s |-> <<key, images, metadata>>]

\* self.dataset before any load
NotLoaded == [loaded |-> FALSE, rows |-> <<>>]

\* BaseHFDataset.__init__
BaseHFDataset(hub) ==
    [hub |-> hub, subset |-> None_, split |-> None_, dataset |-> NotLoaded]

\* A get_key that numbers the rows from 1.
get_key_one_based(self, index) ==
    PyStr(format(self.subset) \o Slash \o format(self.split) \o Slash \o int_str(index + 1))

\* BaseHFDataset.get_key
get_key(self, index) ==
    PyStr(format(self.subset) \o Slash \o format(self.split) \o Slash \o int_str(index))

\* BaseHFDataset.get_subsets
get_subsets(self) == self.hub.subsets

\* BaseHFDataset.get_splits
get_splits(self, subset) == self.hub.splits[subset]

\* A load_dataset that swallows the failure of the load: the rows loaded before stay.
load_dataset_swallow(self, split_name, subset_name) ==
    LET part == self.hub.parts[<<subset_name, split_name>>]
        named == [self EXCEPT !.split = PyStr(split_name), !.subset = PyStr(subset_name)]
    IN IF part.load = ""
       THEN [self |-> [named EXCEPT !.dataset = [loaded |-> TRUE, rows |-> part.rows]],
             ret |-> Ok(None_)]
       ELSE [self |-> named, ret |-> Ok(None_)]

\* BaseHFDataset.load_dataset: subset and split are set before the load is tried; a
\* KeyError of the load becomes ValueError, any other exception RuntimeError.
load_dataset(self, split_name, subset_name) ==
    LET part == self.hub.parts[<<subset_name, split_name>>]
        named == [self EXCEPT !.split = PyStr(split_name), !.subset = PyStr(subset_name)]
    IN IF part.load = ""
       THEN [self |-> [named EXCEPT !.dataset = [loaded |-> TRUE, rows |-> part.rows]],
             ret |-> Ok(None_)]
       ELSE IF part.load = "KeyError" THEN [self |-> named, ret |-> Raise("ValueError")]
       ELSE [self |-> named, ret |-> Raise("RuntimeError")]

\* The number of letters from A to Z.
NumLetters == 26

\* chr(i)
chr(i) == <<i>>

\* Labels that go on after Z.
letters_longer == [i \in 1 .. 2 * NumLetters |-> chr(65 + (i - 1))]

\* letters = [chr(65 + i) for i in range(26)]
letters == [i \in 1 .. NumLetters |-> chr(65 + (i - 1))]

\* formatted[key] = value on the items of a dict, in insertion order.
dict_setitem(items, key, value) ==
    IF \E j \in DOMAIN items : items[j][1] = key
    THEN [j \in DOMAIN items |-> IF items[j][1] = key THEN <<key, value>> ELSE items[j]]
    ELSE Append(items, <<key, value>>)

\* The loop of get_formatted_options over enumerate(options), from index i on: an
\* option past the last letter is logged and left out.
RECURSIVE format_options_loop(_, _, _)
format_options_loop(options, i, formatted) ==
    IF i >= Len(options) THEN formatted
    ELSE format_options_loop(options, i + 1,
                             IF i < Len(letters)
                             THEN dict_setitem(formatted, PyStr(letters[i + 1]), options[i + 1])
                             ELSE formatted)

\* BaseHFDataset.get_formatted_options, for None, a dict and a list.
get_formatted_options(options) ==
    IF options.t = "NoneType" \/ options.s = <<>> THEN Dict(<<>>)
    ELSE IF options.t = "dict" THEN options
    ELSE Dict(format_options_loop(options.s, 0, <<>>))

\* BaseHFDataset.get_row_count
get_row_count(self) ==
    IF ~self.dataset.loaded THEN Raise("RuntimeError") ELSE Ok(Len(self.dataset.rows))

\* extract_row_data of a subclass, on the raw row of the given kind.
extract_row_data(self, row, index) ==
    CASE row = "plain" -> Ok(QAData(get_key(self, index), List(<<>>), Dict(<<>>)))
      [] row = "image" -> Ok(QAData(get_key(self, index), List(<<PILImage(index)>>), Dict(<<>>)))
      [] row = "images" ->
            Ok(QAData(get_key(self, index),
                      List(<<PILImage(index), MissingPath, PILImage(index + 2), EmptyImage,
                             None_, Bytes(<<index>>)>>),
                      Dict(<<>>)))
      [] row = "unpicklable" ->
            Ok(QAData(get_key(self, index), List(<<>>), Dict(<< <<PyStr(<<102>>), LambdaObj>> >>)))
      [] OTHER -> Raise("KeyError")

\* BaseHFDataset.get_row_data
get_row_data(self, index) ==
    IF ~self.dataset.loaded THEN Raise("RuntimeError")
    ELSE IF index < 0 \/ index >= Len(self.dataset.rows) THEN Raise("IndexError")
    ELSE extract_row_data(self, self.dataset.rows[index + 1], index)

\* BaseHFDataset.is_dataset_loaded
is_dataset_loaded(self) == self.dataset.loaded

\* isinstance(v, int): bool is a subclass of int.
isinstance_int(v) == v.t \in {"int", "bool"}

\* list(range(n))
range(n) == [i \in 1 .. n |-> i - 1]

\* indices[:count]
Slice(indices, count) == SubSeq(indices, 1, IF count < Len(indices) THEN count ELSE Len(indices))

\* The lists of count distinct elements of indices, in every order.
Arrangements(indices, count) ==
    {c \in [1 .. count -> {indices[i] : i \in DOMAIN indices}] : \A i, j \in 1 .. count : c[i] = c[j] => i = j}

\* What random.sample(indices, max_samples) or random.shuffle(indices) may leave in
\* indices when random_sample is set; the list as it is otherwise.
RandomChoices(indices, max_samples, random_sample) ==
    IF ~random_sample THEN {indices}
    ELSE IF max_samples # None_ /\ max_samples.s[1] < Len(indices)
    THEN Arrangements(indices, max_samples.s[1])
    ELSE Arrangements(indices, Len(indices))

\* A sort that leaves the list as it is.
sorted_not(indices) == indices

\* sorted(indices)
sorted(indices) == SortSeq(indices, LAMBDA a, b : a < b)

\* The loop of get_samples over the indices: a row whose get_row_data raises is left out.
RECURSIVE samples_loop(_, _, _)
samples_loop(self, indices, samples) ==
    IF indices = <<>> THEN samples
    ELSE LET row_data == get_row_data(self, Head(indices))
         IN samples_loop(self, Tail(indices),
                         IF row_data.exc # "" THEN samples ELSE Append(samples, row_data.val))

\* BaseHFDataset.get_samples(max_samples, random_sample, seed), where choice is what
\* the random generator leaves in indices (indices itself when random_sample is false).
get_samples(self, max_samples, random_sample, seed, choice) ==
    IF ~is_dataset_loaded(self) THEN Raise("RuntimeError")
    ELSE IF max_samples # None_ /\ (~isinstance_int(max_samples) \/ max_samples.s[1] <= 0)
    THEN Raise("ValueError")
    ELSE LET indices == IF random_sample THEN choice
                        ELSE IF max_samples # None_ THEN Slice(choice, max_samples.s[1])
                        ELSE choice
         IN Ok(samples_loop(self, sorted(indices), <<>>))

----------------------------------------------------------------------------
(* DatasetExporter.  An export threads x = [disk, dataset, trace, total_rows, exc]
   through its loops; exc names the exception that is leaving the loops, "" for none. *)

\* One entry of the trace: what was done, for which subset, split and row (-1 for
\* none), under which key, with which outcome ("" for success, "False" for a put that
\* returned false, or the exception raised).  In the entry of the closing log line,
\* irow is the number of rows the line reports.
Event(e, subset, split, irow, key, res) ==
    [e |-> e, subset |-> subset, split |-> split, irow |-> irow, key |-> key, res |-> res]

Did(x, e, subset, split, irow, key, res) ==
    [x EXCEPT !.trace = Append(@, Event(e, subset, split, irow, key, res))]

\* JPEG bytes of an image: SOI, the pixel data, EOI.
jpeg(img) == Bytes(<<255, 216>> \o img.s \o <<255, 217>>)

\* DatasetExporter._process_image_for_storage: None for None, for the path of a file
\* that does not exist, for an image whose save raises and for a type it does not
\* support; the JPEG bytes for an image in memory.
_process_image_for_storage(image_data) ==
    IF image_data = None_ THEN None_
    ELSE IF image_data.t = "str" THEN None_
    ELSE IF image_data.t = "Image"
    THEN IF image_data = EmptyImage THEN None_ ELSE jpeg(image_data)
    ELSE None_

\* Whether Python takes the value for true in a condition.
truthy(v) ==
    CASE v.t = "NoneType" -> FALSE
      [] v.t \in {"str", "bytes", "list", "dict"} -> v.s # <<>>
      [] v.t = "int" -> v.s[1] # 0
      [] OTHER -> TRUE

\* A loop over the images that keeps a None in the place of an image that failed.
RECURSIVE processed_images_all(_)
processed_images_all(images) ==
    IF images = <<>> THEN <<>>
    ELSE <<_process_image_for_storage(Head(images))>> \o processed_images_all(Tail(images))

\* The loop over row_data_copy.images: the processed images that are not None.
RECURSIVE processed_images(_)
processed_images(images) ==
    IF images = <<>> THEN <<>>
    ELSE LET img == Head(images)
             processed_img == _process_image_for_storage(img)
         IN (IF truthy(img) /\ processed_img # None_ THEN <<processed_img>> ELSE <<>>)
            \o processed_images(Tail(images))

\* Objects live in a heap, a sequence of values, and are referred to by their index.
\* A copy that is only another name of the same object.
same_object(heap, ref) == [heap |-> heap, ref |-> ref]

\* copy.deepcopy(row_data): a new object with an equal value that shares nothing with
\* row_data.
deepcopy(heap, ref) == [heap |-> Append(heap, heap[ref]), ref |-> Len(heap) + 1]

\* row_data_copy.images = processed_images: the object referred to gets the new list.
set_images(heap, ref, images) == [heap EXCEPT ![ref].s[2] = images]

\* The images of the copy are replaced by the processed ones when the list is not empty.
replace_images(copy) ==
    LET images == copy.heap[copy.ref].s[2]
    IN IF truthy(images)
       THEN set_images(copy.heap, copy.ref, List(processed_images(images.s)))
       ELSE copy.heap

\* storage.put(key, row_data_copy) as the export calls it.
storage_put(self, key, value) == put(self, key, value)

\* The end of the body of the loop over the rows in save_to_lmdb: r is what
\* storage.put handed back, and the row is counted whatever put returned.
lmdb_put(x, subset, split, irow, key, r) ==
    LET x2 == Did(x, "put", PyStr(subset), PyStr(split), irow, key,
                  IF r.ret.exc # "" THEN r.ret.exc
                  ELSE IF r.ret.val THEN "" ELSE "False")
    IN IF r.ret.exc # "" THEN x2
       ELSE [x2 EXCEPT !.disk = r.disk, !.total_rows = @ + 1]

\* The body of the loop over the rows in save_to_lmdb for row irow, where row_data is
\* the outcome of dataset.get_row_data(irow).
lmdb_row(storage, x, subset, split, irow, row_data) ==
    LET x1 == Did(x, "get_row_data", PyStr(subset), PyStr(split), irow, None_,
                  row_data.exc)
        row_data_copy == deepcopy(<<row_data.val>>, 1)
        heap == replace_images(row_data_copy)
        key == get_key(x.dataset, irow)
    IN IF row_data.exc # "" THEN x1
       ELSE Did(lmdb_put(x1, subset, split, irow, key,
                         storage_put([storage EXCEPT !.disk = x.disk], key,
                                     heap[row_data_copy.ref])),
                "row_data", PyStr(subset), PyStr(split), irow, heap[1], "")

\* A loop over the rows that ends at the first row whose record cannot be built.
RECURSIVE lmdb_rows_stop(_, _, _, _, _, _)
lmdb_rows_stop(storage, x, subset, split, irow, nrows) ==
    IF irow >= nrows \/ get_row_data(x.dataset, irow).exc # "" THEN x
    ELSE lmdb_rows_stop(storage,
                        lmdb_row(storage, x, subset, split, irow, get_row_data(x.dataset, irow)),
                        subset, split, irow + 1, nrows)

\* The loop over the rows in save_to_lmdb, from row irow on.
RECURSIVE lmdb_rows(_, _, _, _, _, _)
lmdb_rows(storage, x, subset, split, irow, nrows) ==
    IF irow >= nrows THEN x
    ELSE lmdb_rows(storage,
                   lmdb_row(storage, x, subset, split, irow, get_row_data(x.dataset, irow)),
                   subset, split, irow + 1, nrows)

\* A handler that catches RuntimeError only.
IsRuntimeError(e) == e = "RuntimeError"

\* except Exception: every exception a load, a row or a put raises is an Exception.
IsException(e) == TRUE

\* The loop over the splits of one subset in save_to_lmdb: what the load or the row
\* count raises is caught, and the loop goes on with the next split.
RECURSIVE lmdb_splits(_, _, _, _)
lmdb_splits(storage, x, subset, splits) ==
    IF splits = <<>> \/ x.exc # "" THEN x
    ELSE LET split == Head(splits)
             l == load_dataset(x.dataset, split, subset)
             x1 == Did([x EXCEPT !.dataset = l.self], "load_dataset",
                       PyStr(subset), PyStr(split), -1, None_, l.ret.exc)
             nrows == get_row_count(x1.dataset)
             x2 == Did(x1, "get_row_count", PyStr(subset), PyStr(split), -1, None_, nrows.exc)
         IN IF l.ret.exc # ""
            THEN lmdb_splits(storage,
                             IF IsException(l.ret.exc) THEN x1 ELSE [x1 EXCEPT !.exc = l.ret.exc],
                             subset, Tail(splits))
            ELSE IF nrows.exc # "" THEN lmdb_splits(storage, x2, subset, Tail(splits))
            ELSE lmdb_splits(storage, lmdb_rows(storage, x2, subset, split, 0, nrows.val),
                             subset, Tail(splits))

\* The loop over the subsets in save_to_lmdb; get_splits is called outside the try
\* blocks, so what it raises leaves the loop.
RECURSIVE lmdb_subsets(_, _, _)
lmdb_subsets(storage, x, subsets) ==
    IF subsets = <<>> \/ x.exc # "" THEN x
    ELSE LET subset == Head(subsets)
             splits == get_splits(x.dataset, subset)
             x1 == Did(x, "get_splits", PyStr(subset), None_, -1, None_, splits.exc)
         IN IF splits.exc # "" THEN [x1 EXCEPT !.exc = splits.exc]
            ELSE lmdb_subsets(storage, lmdb_splits(storage, x1, subset, splits.val),
                              Tail(subsets))

\* Config(db_path=db_path): compress keeps its default.
Config == [compress |-> TRUE]

\* LMDBStorage.__enter__
__enter__(self) == self

\* An __exit__ that leaves the environment open.
__exit__nothing(self) == self.env

\* LMDBStorage.__exit__: returns None, so an exception of the block goes on.
__exit__(self) == close(self)

\* What an export hands back: the database, the adapter, the state of the store object
\* it used, its trace, the JSON file and its outcome.
Exported(disk_, dataset_, env_, trace_, files_, ret_) ==
    [disk |-> disk_, dataset |-> dataset_, env |-> env_, trace |-> trace_,
     files |-> files_, ret |-> ret_]

\* isinstance(output_dir, str)
IsDir(output_dir) == output_dir.t = "str"

\* A check for a missing dataset that lets None through.
is_None_never(arg) == FALSE

\* dataset is None
is_None(arg) == arg = None_

\* The end of save_to_lmdb: the with block is left with x, the store is closed, and the
\* exception that left the block, if any, is logged and raised again.
lmdb_exit(storage, x, files_) ==
    LET env_ == __exit__(storage)
        x3 == Did(x, "__exit__", None_, None_, -1, None_, "")
    IN IF x3.exc # ""
       THEN Exported(x3.disk, x3.dataset, env_,
                     Append(x3.trace, Event("error", None_, None_, -1, None_, x3.exc)),
                     files_, Raise(x3.exc))
       ELSE Exported(x3.disk, x3.dataset, env_,
                     Append(x3.trace, Event("info", None_, None_, x3.total_rows, None_, "")),
                     files_, Ok(None_))

\* A with block that goes through the subsets from the last to the first.
lmdb_block_reversed(storage, x, subsets) ==
    LET x1 == Did(x, "get_subsets", None_, None_, -1, None_, subsets.exc)
    IN IF subsets.exc # "" THEN [x1 EXCEPT !.exc = subsets.exc]
       ELSE lmdb_subsets(storage, x1,
                         [i \in DOMAIN subsets.val |-> subsets.val[Len(subsets.val) + 1 - i]])

\* The with block of save_to_lmdb, where subsets is the outcome of
\* dataset.get_subsets(): no placeholder stands in for an empty list.
lmdb_block(storage, x, subsets) ==
    LET x1 == Did(x, "get_subsets", None_, None_, -1, None_, subsets.exc)
    IN IF subsets.exc # "" THEN [x1 EXCEPT !.exc = subsets.exc]
       ELSE lmdb_subsets(storage, x1, subsets.val)

\* DatasetExporter.save_to_lmdb(arg, output_dir), where arg is None or the adapter self,
\* on the database directory with content disk_ and the JSON file files_.
save_to_lmdb(arg, self, output_dir, disk_, files_) ==
    IF is_None(arg) \/ ~IsDir(output_dir)
    THEN Exported(disk_, self, "None", <<>>, files_, Raise("ValueError"))
    ELSE LET new == __init__(Config)
             storage == __enter__([disk |-> disk_, env |-> new.env, compress |-> new.compress])
             x0 == Did([disk |-> disk_, dataset |-> self, trace |-> <<>>,
                        total_rows |-> 0, exc |-> ""],
                       "LMDBStorage", None_, None_, -1, None_, "")
         IN lmdb_exit(storage, lmdb_block(storage, x0, get_subsets(self)), files_)

\* The text written to the JSON file, piece by piece: the piece k is a bracket, a comma,
\* a line feed, the text of an object ("object", with the dict v it stands for), or the
\* beginning of such a text ("partial").
Tok(k, v) == [k |-> k, v |-> v]
Punct(k) == Tok(k, None_)

\* The file does not exist.
NoJson == <<Punct("absent")>>

\* Whether json.dump can write the value.
RECURSIVE JsonSerializable(_)
JsonSerializable(value) ==
    CASE value.t \in {"NoneType", "int", "str"} -> TRUE
      [] value.t = "list" -> \A i \in 1 .. Len(value.s) : JsonSerializable(value.s[i])
      [] value.t = "dict" ->
            \A i \in 1 .. Len(value.s) :
                value.s[i][1].t = "str" /\ JsonSerializable(value.s[i][2])
      [] OTHER -> FALSE

\* dataclasses.asdict(row): the fields by name.
asdict(row) ==
    Dict([i \in 1 .. 3 |-> <<PyStr(QADataFields[i]), row.s[i]>>])

\* The body of the loop over the rows in save_to_json, from row irow on.
RECURSIVE json_rows(_, _, _, _, _, _)
json_rows(x, indent, subset, split, irow, nrows) ==
    IF irow >= nrows THEN x
    ELSE LET row == get_row_data(x.dataset, irow)
             row_dict == asdict(row.val)
             x1 == Did(x, "get_row_data", PyStr(subset), PyStr(split), irow, None_, row.exc)
             sep == IF x.first_item THEN <<>>
                    ELSE <<Punct(",")>> \o (IF indent > 0 THEN <<Punct("\n")>> ELSE <<>>)
             x2 == [x1 EXCEPT !.file = @ \o sep, !.first_item = FALSE]
         IN IF row.exc # "" THEN json_rows(x1, indent, subset, split, irow + 1, nrows)
            ELSE IF ~JsonSerializable(row_dict)
            THEN json_rows(Did([x2 EXCEPT !.file = Append(@, Tok("partial", row_dict))],
                               "json.dump", PyStr(subset), PyStr(split), irow, None_,
                               "TypeError"),
                           indent, subset, split, irow + 1, nrows)
            ELSE json_rows(Did([x2 EXCEPT !.file = Append(@, Tok("object", row_dict)),
                                          !.total_rows = @ + 1],
                               "json.dump", PyStr(subset), PyStr(split), irow, None_, ""),
                           indent, subset, split, irow + 1, nrows)

\* The exceptions of load_dataset that save_to_json catches.
JsonLoadCaught == {"RuntimeError"}

\* The loop over the splits of one subset in save_to_json: a load that raises
\* RuntimeError is skipped, any other exception leaves the loops.
RECURSIVE json_splits(_, _, _, _)
json_splits(x, indent, subset, splits) ==
    IF splits = <<>> THEN x
    ELSE LET split == Head(splits)
             l == load_dataset(x.dataset, split, subset)
             x1 == Did([x EXCEPT !.dataset = l.self], "load_dataset",
                       PyStr(subset), PyStr(split), -1, None_, l.ret.exc)
             nrows == get_row_count(x1.dataset)
             x2 == Did(x1, "get_row_count", PyStr(subset), PyStr(split), -1, None_, nrows.exc)
         IN IF l.ret.exc \in JsonLoadCaught THEN json_splits(x1, indent, subset, Tail(splits))
            ELSE IF l.ret.exc # "" THEN [x1 EXCEPT !.exc = l.ret.exc]
            ELSE IF nrows.exc # "" THEN [x2 EXCEPT !.exc = nrows.exc]
            ELSE LET x3 == json_rows(x2, indent, subset, split, 0, nrows.val)
                 IN json_splits(x3, indent, subset, Tail(splits))

\* The loop over the subsets in save_to_json.
RECURSIVE json_subsets(_, _, _)
json_subsets(x, indent, subsets) ==
    IF subsets = <<>> THEN x
    ELSE LET subset == Head(subsets)
             splits == get_splits(x.dataset, subset)
             x1 == Did(x, "get_splits", PyStr(subset), None_, -1, None_, splits.exc)
             x2 == IF splits.exc # "" THEN [x1 EXCEPT !.exc = splits.exc]
                   ELSE json_splits(x1, indent, subset, splits.val)
         IN IF x2.exc # "" THEN x2 ELSE json_subsets(x2, indent, Tail(subsets))

\* isinstance(indent, int) and indent >= 0
IsIndent(indent) == indent.t = "int" /\ indent.s[1] >= 0

\* DatasetExporter.save_to_json(arg, output_dir, indent), where arg is None or the
\* adapter self.
save_to_json(arg, self, output_dir, indent, disk_, files_) ==
    IF is_None(arg) \/ ~IsDir(output_dir) \/ ~IsIndent(indent)
    THEN Exported(disk_, self, "None", <<>>, files_, Raise("ValueError"))
    ELSE LET got == get_subsets(self)
             t0 == <<Event("get_subsets", None_, None_, -1, None_, got.exc)>>
             subsets == IF got.val = <<>> THEN <<DefaultSubset>> ELSE got.val
             x0 == [dataset |-> self,
                    trace |-> t0 \o <<Event("makedirs", None_, None_, -1, None_, ""),
                                      Event("open", None_, None_, -1, None_, "")>>,
                    file |-> <<Punct("[")>> \o
                             (IF indent.s[1] > 0 THEN <<Punct("\n")>> ELSE <<>>),
                    total_rows |-> 0, first_item |-> TRUE, exc |-> ""]
             x1 == json_subsets(x0, indent.s[1], subsets)
             tail == (IF x1.total_rows > 0 /\ indent.s[1] > 0 THEN <<Punct("\n")>> ELSE <<>>)
                     \o <<Punct("]")>>
         IN IF got.exc # ""
            THEN Exported(disk_, self, "None", t0, files_, Raise(got.exc))
            ELSE IF x1.exc # ""
            THEN Exported(disk_, x1.dataset, "None", x1.trace, x1.file, Raise(x1.exc))
            ELSE Exported(disk_, x1.dataset, "None",
                          Append(x1.trace, Event("info", None_, None_, x1.total_rows, None_, "")),
                          x1.file \o tail, Ok(None_))

\* str.lower() on the letters A..Z
lower(cs) == [i \in 1 .. Len(cs) |-> IF cs[i] \in 65 .. 90 THEN cs[i] + 32 ELSE cs[i]]

\* The format names of save.
JsonFormat == <<106, 115, 111, 110>>
LmdbFormat == <<108, 109, 100, 98>>

\* DatasetExporter.save(arg, format, output_dir)
save(arg, self, format_, output_dir, disk_, files_) ==
    IF is_None(arg) \/ format_.t # "str"
    THEN Exported(disk_, self, "None", <<>>, files_, Raise("ValueError"))
    ELSE IF lower(format_.s) = JsonFormat
    THEN save_to_json(arg, self, output_dir, PyInt(4), disk_, files_)
    ELSE IF lower(format_.s) = LmdbFormat
    THEN save_to_lmdb(arg, self, output_dir, disk_, files_)
    ELSE Exported(disk_, self, "None", <<>>, files_, Raise("ValueError"))

----------------------------------------------------------------------------
(* History: what the successful puts, deletes and clears so far leave in effect *)

NothingWritten == [k \in KeyStrs |-> Absent]

HistPut(w, key, value, r) ==
    IF r.exc = "" /\ r.val THEN [w EXCEPT ![key.s] = value] ELSE w

HistDelete(w, key, r) ==
    IF r.exc = "" /\ r.val THEN [w EXCEPT ![key.s] = Absent] ELSE w

HistClear(w, cleared) == IF cleared THEN NothingWritten ELSE w

RECURSIVE HistPuts(_, _, _)
HistPuts(w, items, results) ==
    IF items = <<>> THEN w
    ELSE HistPuts(HistPut(w, PyStr(Head(items)[1]), Head(items)[2], Head(results)),
                  Tail(items), Tail(results))

\* The keys a put is still in effect for.
InEffect(w) == {k \in KeyStrs : w[k] # Absent}

----------------------------------------------------------------------------
(* The calls *)

Self == [disk |-> disk, env |-> env, compress |-> compress]

Call(name, key, value, default, file, clear_existing) ==
    [name |-> name, key |-> key, value |-> value, default |-> default,
     file |-> file, clear_existing |-> clear_existing]

\* The files from_json is called on.
JsonFiles ==
    {File(k, <<>>) : k \in {"missing", "directory", "binary", "garbage", "list", "object"}}
    \cup {File("object", <<<<cs, v>>>>) : cs \in KeyStrs, v \in Ints}
    \cup {File("object", <<<<<<>>, v>>, <<cs, v>>>>) : cs \in KeyStrs \ {<<>>}, v \in Ints}
    \cup {File("object", <<<<<<97>>, PyInt(1)>>, <<<<233>>, PyInt(2)>>>>)}

Init ==
    /\ disk = <<>>
    /\ env = "open"
    /\ compress \in BOOLEAN
    /\ op = Call("__init__", None_, None_, None_, NoFile, FALSE)
    /\ ret = Ok(None_)
    /\ written = NothingWritten
    /\ dataset = None_
    /\ trace = <<>>
    /\ files = NoJson

Put ==
    \E key \in KeyArgs, value \in ValueArgs :
        LET r == put(Self, key, value) IN
        /\ op' = Call("put", key, value, None_, NoFile, FALSE)
        /\ disk' = r.disk
        /\ ret' = r.ret
        /\ written' = HistPut(written, key, value, r.ret)
        /\ UNCHANGED <<env, compress>>
        /\ UNCHANGED xvars

Get ==
    \E key \in KeyArgs, default \in Defaults :
        /\ op' = Call("get", key, None_, default, NoFile, FALSE)
        /\ ret' = get(Self, key, default)
        /\ UNCHANGED <<disk, env, compress, written>>
        /\ UNCHANGED xvars

Delete ==
    \E key \in KeyArgs :
        LET r == delete(Self, key) IN
        /\ op' = Call("delete", key, None_, None_, NoFile, FALSE)
        /\ disk' = r.disk
        /\ ret' = r.ret
        /\ written' = HistDelete(written, key, r.ret)
        /\ UNCHANGED <<env, compress>>
        /\ UNCHANGED xvars

HasKey ==
    \E key \in KeyArgs :
        /\ op' = Call("has_key", key, None_, None_, NoFile, FALSE)
        /\ ret' = has_key(Self, key)
        /\ UNCHANGED <<disk, env, compress, written>>
        /\ UNCHANGED xvars

CountKeys ==
    /\ op' = Call("count_keys", None_, None_, None_, NoFile, FALSE)
    /\ ret' = count_keys(Self)
    /\ UNCHANGED <<disk, env, compress, written>>
    /\ UNCHANGED xvars

GetKeys ==
    /\ op' = Call("get_keys", None_, None_, None_, NoFile, FALSE)
    /\ ret' = get_keys(Self)
    /\ UNCHANGED <<disk, env, compress, written>>
    /\ UNCHANGED xvars

AllItems ==
    /\ op' = Call("all_items", None_, None_, None_, NoFile, FALSE)
    /\ ret' = all_items(Self)
    /\ UNCHANGED <<disk, env, compress, written>>
    /\ UNCHANGED xvars

Clear ==
    LET r == clear(Self) IN
    /\ op' = Call("clear", None_, None_, None_, NoFile, FALSE)
    /\ disk' = r.disk
    /\ ret' = r.ret
    /\ written' = HistClear(written, r.ret.val)
    /\ UNCHANGED <<env, compress>>
    /\ UNCHANGED xvars

FromJson ==
    \E file \in JsonFiles, clear_existing \in BOOLEAN :
        LET r == from_json(Self, file, clear_existing) IN
        /\ op' = Call("from_json", None_, None_, None_, file, clear_existing)
        /\ disk' = r.disk
        /\ ret' = r.ret
        /\ written' = HistPuts(HistClear(written, r.cleared), file.items, r.results)
        /\ UNCHANGED <<env, compress>>
        /\ UNCHANGED xvars

\* close(), also on a store that is closed already.
Close ==
    /\ op' = Call("close", None_, None_, None_, NoFile, FALSE)
    /\ env' = close(Self)
    /\ ret' = Ok(None_)
    /\ UNCHANGED <<disk, compress, written>>
    /\ UNCHANGED xvars

\* A later session: a new store object is constructed on the same directory.
Open ==
    /\ env = "None"
    /\ \E c \in BOOLEAN :
        LET new == __init__([compress |-> c]) IN
        /\ env' = new.env
        /\ compress' = new.compress
    /\ op' = Call("__init__", None_, None_, None_, NoFile, FALSE)
    /\ ret' = Ok(None_)
    /\ UNCHANGED <<disk, written>>
    /\ UNCHANGED xvars

\* One store object from its construction on, never closed.
NextOpen ==
    \/ Put \/ Get \/ Delete \/ HasKey \/ CountKeys \/ GetKeys \/ AllItems \/ Clear \/ FromJson

SpecOpen == Init /\ [][NextOpen]_vars

\* Stores opened and closed in turn on one directory.
Next == NextOpen \/ Close \/ Open

Spec == Init /\ [][Next]_vars

----------------------------------------------------------------------------
(* The exporter at work: exports of one adapter into the directory of one store, which
   is opened, cleared and closed between the exports. *)

\* The datasets on the Hub: a partition loads, with at most NumRows rows of which at
\* most one is not plain, or its load raises.
RowKinds == {"plain", "image", "images", "unpicklable", "raises"}

RowSeqs ==
    UNION {{[i \in 1 .. n |-> "plain"]}
           \cup {[i \in 1 .. n |-> IF i = j THEN k ELSE "plain"] :
                    j \in 1 .. n, k \in RowKinds \ {"plain"}} : n \in 0 .. NumRows}

Part(exc, rows) == [load |-> exc, rows |-> rows]
PartKinds == {Part("", rows) : rows \in RowSeqs} \cup {Part(e, <<>>) : e \in {"KeyError", "Exception"}}

\* The partition that stands beside the one that varies: one plain row, or a load that
\* raises.
OtherParts == {Part("", <<"plain">>), Part("Exception", <<>>)}

SubsetNames == {<<97>>, <<98>>, DefaultSubset}
SplitNames == {Train, Test}

\* A dataset with the given outcome of get_subsets, the splits of the subsets named in
\* splits and the partitions named in parts; what is not named is not on the Hub.
Hub(subsets, splits, parts) ==
    [subsets |-> subsets,
     splits |-> [n \in SubsetNames |->
                    IF n \in DOMAIN splits THEN splits[n] ELSE Raise("ValueError")],
     parts |-> [sp \in SubsetNames \X SplitNames |->
                    IF sp \in DOMAIN parts THEN parts[sp] ELSE Part("KeyError", <<>>)]]

Hubs ==
    {Hub(Raise("ValueError"), <<>>, <<>>)}
    \cup {Hub(Ok(<<>>), (DefaultSubset :> Ok(<<Train>>)), (<<DefaultSubset, Train>> :> p)) :
            p \in PartKinds}
    \cup {Hub(Ok(<< <<97>> >>), (<<97>> :> Raise("ValueError")), <<>>),
          Hub(Ok(<< <<97>> >>), (<<97>> :> Ok(<<>>)), <<>>)}
    \cup {Hub(Ok(<< <<97>> >>), (<<97>> :> Ok(<<Train>>)), (<< <<97>>, Train>> :> p)) :
            p \in PartKinds}
    \cup {Hub(Ok(<< <<97>> >>), (<<97>> :> Ok(<<Train, Test>>)),
              (<< <<97>>, Train>> :> p) @@ (<< <<97>>, Test>> :> q)) :
            p \in PartKinds, q \in OtherParts}
    \cup {Hub(Ok(<< <<98>>, <<97>> >>), (<<98>> :> Ok(<<Train>>)) @@ (<<97>> :> Ok(<<Train>>)),
              (<< <<98>>, Train>> :> p) @@ (<< <<97>>, Train>> :> q)) :
            p \in OtherParts, q \in PartKinds}
    \cup {Hub(Ok(<< <<98>>, <<97>> >>),
              (<<98>> :> Ok(<<Train>>)) @@ (<<97>> :> Raise("ValueError")),
              (<< <<98>>, Train>> :> p)) :
            p \in PartKinds}

\* The dataset argument of a call: None, or the adapter (here under the name "self").
Adapter == PyStr(<<115, 101, 108, 102>>)

\* The default of output_dir, 'datasets', and of indent.
Datasets == PyStr(<<100, 97, 116, 97, 115, 101, 116, 115>>)
DefaultIndent == PyInt(4)

ExportCall(name, arg, format_, output_dir, indent) ==
    [name |-> name, arg |-> arg, format |-> format_, output_dir |-> output_dir,
     indent |-> indent]

\* The calls made: each export with its defaults, the JSON export without indentation
\* too, and each with one argument that is missing or of the wrong type; save with its
\* format names in upper and mixed case and with a name it does not know.
LmdbCalls ==
    {ExportCall("save_to_lmdb", arg, None_, output_dir, None_) :
        <<arg, output_dir>> \in {<<Adapter, Datasets>>, <<None_, Datasets>>, <<Adapter, None_>>}}

JsonCalls ==
    {ExportCall("save_to_json", arg, None_, output_dir, indent) :
        <<arg, output_dir, indent>> \in
            {<<Adapter, Datasets, DefaultIndent>>, <<Adapter, Datasets, PyInt(0)>>,
             <<None_, Datasets, DefaultIndent>>, <<Adapter, None_, DefaultIndent>>,
             <<Adapter, Datasets, PyInt(-1)>>}}

SaveCalls ==
    {ExportCall("save", arg, format_, Datasets, None_) :
        <<arg, format_>> \in
            {<<Adapter, PyStr(<<74, 83, 79, 78>>)>>, <<Adapter, PyStr(<<76, 109, 100, 98>>)>>,
             <<Adapter, PyStr(<<120, 109, 108>>)>>, <<Adapter, None_>>,
             <<None_, PyStr(LmdbFormat)>>}}

InitExport ==
    /\ disk = <<>>
    /\ env = "None"
    /\ compress = Config.compress
    /\ op = ExportCall("BaseHFDataset", None_, None_, None_, None_)
    /\ ret = Ok(None_)
    /\ written = NothingWritten
    /\ dataset \in {BaseHFDataset(hub) : hub \in Hubs}
    /\ trace = <<>>
    /\ files = NoJson

\* The state after an export that handed back r.
Export(r) ==
    /\ disk' = r.disk
    /\ dataset' = r.dataset
    /\ env' = r.env
    /\ trace' = r.trace
    /\ files' = r.files
    /\ ret' = r.ret
    /\ UNCHANGED <<compress, written>>

SaveToLmdb ==
    /\ env = "None"
    /\ \E call \in LmdbCalls :
        /\ op' = call
        /\ Export(save_to_lmdb(call.arg, dataset, call.output_dir, disk, files))

SaveToJson ==
    /\ env = "None"
    /\ \E call \in JsonCalls :
        /\ op' = call
        /\ Export(save_to_json(call.arg, dataset, call.output_dir, call.indent, disk, files))

Save ==
    /\ env = "None"
    /\ \E call \in SaveCalls :
        /\ op' = call
        /\ Export(save(call.arg, dataset, call.format, call.output_dir, disk, files))

\* LMDBStorage(Config(db_path=...)) on the directory of the export, as the viewers do.
OpenExported ==
    /\ env = "None"
    /\ env' = __init__(Config).env
    /\ compress' = __init__(Config).compress
    /\ op' = Call("__init__", None_, None_, None_, NoFile, FALSE)
    /\ ret' = Ok(None_)
    /\ UNCHANGED <<disk, written>>
    /\ UNCHANGED xvars

NextExport == SaveToLmdb \/ SaveToJson \/ Save \/ OpenExported \/ Clear \/ Close

SpecExport == InitExport /\ [][NextExport]_vars

----------------------------------------------------------------------------
(* Serialization at work: values of every type the pickler of this model writes are
   serialized and deserialized by one store, and put under one key and read back. *)

\* Values without parts: None, integers of one and two bytes, strings whose characters
\* take one to four bytes in UTF-8, byte strings.
Atoms ==
    {None_, PyInt(0), PyInt(255), PyInt(256), PyInt(65535),
     PyStr(<<>>), PyStr(<<97>>), PyStr(<<233, 8364, 128512>>),
     Bytes(<<>>), Bytes(<<0, 255>>)}

\* A record as an export stores it: its key, its images as JPEG bytes, its metadata.
Records ==
    {QAData(PyStr(<<97, 47, 98, 47, 48>>), List(imgs), Dict(md)) :
        imgs \in {<<>>, <<jpeg(PILImage(0))>>},
        md \in {<<>>, << <<PyStr(<<102>>), PyInt(1)>> >>}}

\* The values: atoms, records, and lists and dicts of none, one and two values, nested
\* once.
Representable ==
    Atoms \cup Records
    \cup {List(<<>>), Dict(<<>>), List(<<PyInt(1)>>), List(<<List(<<>>), Dict(<<>>)>>),
          Dict(<< <<PyStr(<<107>>), Bytes(<<1>>)>> >>),
          Dict(<< <<PyStr(<<97>>), List(<<PyInt(1)>>)>>, <<PyInt(2), None_>> >>)}
    \cup {List(<<None_, v>>) : v \in Records}

\* The key of the round trip through the database.
RoundTripKey == PyStr(<<97>>)

InitRoundTrip ==
    /\ disk = <<>>
    /\ env = "open"
    /\ compress \in BOOLEAN
    /\ op = Call("__init__", None_, None_, None_, NoFile, FALSE)
    /\ ret = Ok(None_)
    /\ written = NothingWritten
    /\ dataset = None_
    /\ trace = <<>>
    /\ files = NoJson

Serialize ==
    \E value \in Representable :
        /\ op' = Call("_serialize", None_, value, None_, NoFile, FALSE)
        /\ ret' = _serialize(Self, value)
        /\ UNCHANGED <<disk, env, compress, written>>
        /\ UNCHANGED xvars

\* _deserialize on the bytes _serialize has just returned; op keeps the value they
\* were made from.
Deserialize ==
    /\ op.name = "_serialize"
    /\ ret.exc = ""
    /\ op' = Call("_deserialize", None_, op.value, None_, NoFile, FALSE)
    /\ ret' = _deserialize(Self, ret.val)
    /\ UNCHANGED <<disk, env, compress, written>>
    /\ UNCHANGED xvars

PutValue ==
    \E value \in Representable :
        LET r == put(Self, RoundTripKey, value) IN
        /\ op' = Call("put", RoundTripKey, value, None_, NoFile, FALSE)
        /\ disk' = r.disk
        /\ ret' = r.ret
        /\ written' = HistPut(written, RoundTripKey, value, r.ret)
        /\ UNCHANGED <<env, compress>>
        /\ UNCHANGED xvars

NextRoundTrip == Serialize \/ Deserialize \/ PutValue \/ Get

SpecRoundTrip == InitRoundTrip /\ [][NextRoundTrip]_vars

----------------------------------------------------------------------------
(* Options at work: get_formatted_options is applied to lists of up to MaxOptions
   options, to a dict and to None. *)

\* The lists: all options the same text, or each its number, or each a small letter;
\* and what is not a list.
OptionArgs ==
    {List([i \in 1 .. n |-> PyStr(<<120>>)]) : n \in 0 .. MaxOptions}
    \cup {List([i \in 1 .. n |-> PyStr(int_str(i))]) : n \in 0 .. MaxOptions}
    \cup {List([i \in 1 .. n |-> PyStr(<<97 + (i % 26)>>)]) : n \in 0 .. MaxOptions}
    \cup {None_, Dict(<<>>), Dict(<< <<PyStr(<<49>>), PyStr(<<120>>)>> >>)}

\* The options of a record are at hand.
InitOptions ==
    /\ op \in {[name |-> "options", arg |-> options] : options \in OptionArgs}
    /\ ret = Ok(None_)
    /\ disk = <<>>
    /\ env = "None"
    /\ compress = Config.compress
    /\ written = NothingWritten
    /\ dataset = None_
    /\ trace = <<>>
    /\ files = NoJson

FormatOptions ==
    /\ op.name = "options"
    /\ op' = [name |-> "get_formatted_options", arg |-> op.arg]
    /\ ret' = Ok(get_formatted_options(op.arg))
    /\ UNCHANGED <<disk, env, compress, written>>
    /\ UNCHANGED xvars

SpecOptions == InitOptions /\ [][FormatOptions]_vars

-----------------------------------------------------------------------------
(* Sampling at work: get_samples on an adapter with a loaded partition *)

\* The largest number of rows of the partition sampled.
NumSampleRows == 3

\* The rows of the partition: each gives a record or raises.
SampleRows == UNION {[1 .. n -> {"plain", "raises"}] : n \in 0 .. NumSampleRows}

PyBool(b) == [t |-> "bool", s |-> <<IF b THEN 1 ELSE 0>>]

\* max_samples: None, integers from -1 to one more than the rows, True and False, '2'.
MaxSamplesArgs ==
    {None_, PyStr(<<50>>), PyBool(TRUE), PyBool(FALSE)}
    \cup {PyInt(n) : n \in -1 .. NumSampleRows + 1}

\* The adapter after load_dataset('train', 'a') of a partition with the given rows, and
\* an adapter that has loaded nothing.
SampleAdapters ==
    {load_dataset(BaseHFDataset(Hub(Ok(<< <<97>> >>), (<<97>> :> Ok(<<Train>>)),
                                    (<< <<97>>, Train>> :> Part("", rows)))),
                  Train, <<97>>).self : rows \in SampleRows}
    \cup {BaseHFDataset(Hub(Ok(<<>>), <<>>, <<>>))}

InitSamples ==
    /\ dataset \in SampleAdapters
    /\ op \in {[name |-> "samples", max_samples |-> m, random_sample |-> r, seed |-> sd] :
                  m \in MaxSamplesArgs, r \in BOOLEAN, sd \in {None_, PyInt(1)}}
    /\ ret = Ok(None_)
    /\ disk = <<>>
    /\ env = "None"
    /\ compress = Config.compress
    /\ written = NothingWritten
    /\ trace = <<>>
    /\ files = NoJson

GetSamples ==
    /\ op.name = "samples"
    /\ \E choice \in RandomChoices(range(Len(dataset.dataset.rows)), op.max_samples,
                                    op.random_sample) :
            ret' = get_samples(dataset, op.max_samples, op.random_sample, op.seed, choice)
    /\ op' = [op EXCEPT !.name = "get_samples"]
    /\ UNCHANGED <<disk, env, compress, written, dataset, trace, files>>

SpecSamples == InitSamples /\ [][GetSamples]_vars

-----------------------------------------------------------------------------
(* Transactions at work: a process that calls from_json, one write transaction
   after the other, and a second process that reads the same database between
   any two of them *)

\* One write transaction: self.clear(), or self.put(str(key), value).
Txn(name, key, value) == [txn |-> name, key |-> key, value |-> value]

\* The write transactions that from_json makes once json.load has returned data, in
\* their order: that of clear() when clear_existing is set, then one for the put of
\* each item; data.items() raises when data is not a dict, after the clear.
from_json_txns(data, clear_existing) ==
    (IF clear_existing THEN <<Txn("clear", None_, None_)>> ELSE <<>>)
    \o (IF data.kind # "object" THEN <<>>
        ELSE [i \in DOMAIN data.items |->
                Txn("put", PyStr(data.items[i][1]), data.items[i][2])])

\* What from_json returns once json.load has returned data.
from_json_return(data) == IF data.kind = "object" THEN Ok(TRUE) ELSE Ok(FALSE)

\* The database after the transaction has committed.
commit(self, t) ==
    IF t.txn = "clear" THEN clear(self).disk ELSE put(self, t.key, t.value).disk

\* The call in progress: its arguments, the database before it, the transactions it
\* has still to make, and what the reading process saw last, if it read since the
\* last transaction.
TxnCall(name, file, clear_existing, before, todo, seen) ==
    [name |-> name, file |-> file, clear_existing |-> clear_existing, before |-> before,
     todo |-> todo, seen |-> seen]

\* Nothing read yet.
Unread == [exc |-> "unread", val |-> None_]

InitTxns ==
    /\ disk = <<>>
    /\ env = "open"
    /\ compress = Config.compress
    /\ op = TxnCall("__init__", NoFile, FALSE, <<>>, <<>>, Unread)
    /\ ret = Ok(None_)
    /\ written = NothingWritten
    /\ dataset = None_
    /\ trace = <<>>
    /\ files = NoJson

\* from_json is called: the file is checked and read, which touches no database.
FromJsonCalled ==
    /\ op.todo = <<>>
    /\ \E file \in JsonFiles, clear_existing \in BOOLEAN :
        LET data == json_load(file)
            failed == from_json(Self, file, clear_existing).ret
            todo == from_json_txns(data.val, clear_existing)
        IN IF ~is_file(file) \/ data.exc # ""
           THEN /\ op' = TxnCall("from_json", file, clear_existing, disk, <<>>, Unread)
                /\ ret' = failed
           ELSE /\ op' = TxnCall("from_json", file, clear_existing, disk, todo, Unread)
                /\ ret' = IF todo = <<>> THEN from_json_return(data.val) ELSE Ok(None_)
    /\ UNCHANGED <<disk, env, compress, written>>
    /\ UNCHANGED xvars

\* The next write transaction of the from_json in progress commits; after the last one
\* from_json returns.
FromJsonCommits ==
    /\ op.name = "from_json"
    /\ op.todo # <<>>
    /\ disk' = commit(Self, Head(op.todo))
    /\ op' = [op EXCEPT !.todo = Tail(@), !.seen = Unread]
    /\ ret' = IF Tail(op.todo) = <<>> THEN from_json_return(op.file) ELSE ret
    /\ UNCHANGED <<env, compress, written>>
    /\ UNCHANGED xvars

\* The reading process calls all_items() on its own store object of the same database.
ReaderReads ==
    /\ op' = [op EXCEPT !.seen = all_items(Self)]
    /\ UNCHANGED <<disk, ret, env, compress, written>>
    /\ UNCHANGED xvars

NextTxns == FromJsonCalled \/ FromJsonCommits \/ ReaderReads

SpecTxns == InitTxns /\ [][NextTxns]_vars

----------------------------------------------------------------------------
(* Properties of the store *)

\* The key argument is a Python string.
IsStr(key) == key.t = "str"

\* What get(k, d) returns according to the history.
Expected(k, d) == IF written[k] # Absent THEN written[k] ELSE d

\* C1: on an open store, after any sequence of put, delete and clear calls, get(k, d)
\* returns the value of the most recent successful put(k, .) that no later delete(k) or
\* clear() removed, and d otherwise; has_key(k) is true exactly when such a put is in effect.
C1_GetReturnsLastPut ==
    /\ \A k \in KeyStrs, d \in Defaults :
        /\ get(Self, PyStr(k), d) = Ok(Expected(k, d))
        /\ has_key(Self, PyStr(k)).exc = ""
        /\ has_key(Self, PyStr(k)).val = (written[k] # Absent)
    /\ (op.name = "get" /\ IsStr(op.key)) => ret = Ok(Expected(op.key.s, op.default))
    /\ (op.name = "has_key" /\ IsStr(op.key)) =>
           (ret.exc = "" /\ ret.val = (written[op.key.s] # Absent))

\* A get that returns the second value put under a key, not the default it was given.
C1_Witness ==
    /\ op.name = "get"
    /\ op.key = PyStr(<<233>>)
    /\ op.default = PyStr(<<100>>)
    /\ ret = Ok(PyInt(2))
    /\ Cardinality(DOMAIN disk) = 2

\* The number count_keys() returns on the open store.
Count == count_keys(Self).val

\* C2: on an open store count_keys() is the number of distinct keys stored, that is of
\* keys with a put in effect; it does not change when a put overwrites a key or returns
\* false, and it decreases by exactly one on each delete that returns true.
C2_CountIsNumberOfKeys ==
    /\ [](env = "open" => count_keys(Self) = Ok(Cardinality(InEffect(written))))
    /\ [](op.name = "count_keys" /\ env = "open" => ret = Ok(Cardinality(InEffect(written))))
    /\ [][/\ (op'.name = "put" /\ IsStr(op'.key) /\ env = "open"
               /\ (~ret'.val \/ written[op'.key.s] # Absent))
              => Count' = Count
          /\ (op'.name = "put" /\ IsStr(op'.key) /\ env = "open"
               /\ ret'.val /\ written[op'.key.s] = Absent)
              => Count' = Count + 1
          /\ (op'.name = "delete" /\ IsStr(op'.key) /\ env = "open" /\ ret'.val)
              => Count' = Count - 1]_vars

\* count_keys() returns 2 after puts on two keys.
C2_Witness ==
    /\ op.name = "count_keys"
    /\ env = "open"
    /\ ret = Ok(2)

\* C3: delete(k) returns true exactly when k was present before the call; after a delete
\* that returned true get(k, d) returns d and has_key(k) is false; delete(k) on an absent
\* key returns false and leaves every key and value as it was.
C3_DeleteSemantics ==
    [][(op'.name = "delete" /\ IsStr(op'.key) /\ env = "open") =>
          /\ ret'.exc = ""
          /\ ret'.val = (written[op'.key.s] # Absent)
          /\ ret'.val =>
                /\ \A d \in Defaults : get(Self', op'.key, d) = Ok(d)
                /\ has_key(Self', op'.key) = Ok(FALSE)
          /\ ~ret'.val => disk' = disk]_vars

\* A delete that returned true while another key stays in the store.
C3_Witness ==
    /\ op.name = "delete"
    /\ ret.exc = ""
    /\ ret.val
    /\ env = "open"
    /\ Cardinality(DOMAIN disk) = 1

\* C4: after clear() returns true, count_keys() is 0, get_keys() is empty and get(k, d)
\* returns d for every k; a put(k, v) that follows, of a value that can be pickled under
\* a non-empty key, returns true and get(k) then returns v.
C4_ClearEmptiesAndStaysUsable ==
    /\ []((op.name = "clear" /\ ret.val) =>
            /\ count_keys(Self) = Ok(0)
            /\ get_keys(Self) = Ok(<<>>)
            /\ all_items(Self) = Ok(<<>>)
            /\ \A k \in KeyStrs, d \in Defaults : get(Self, PyStr(k), d) = Ok(d))
    /\ [][(op.name = "clear" /\ ret.val /\ op'.name = "put"
           /\ IsStr(op'.key) /\ op'.key.s # <<>> /\ op'.value \in Ints) =>
              /\ ret' = Ok(TRUE)
              /\ \A d \in Defaults : get(Self', op'.key, d) = Ok(op'.value)
              /\ count_keys(Self') = Ok(1)]_vars

\* A clear() that returned true on an open store, which is empty after it.
C4_Witness ==
    /\ op.name = "clear"
    /\ ret.val
    /\ env = "open"
    /\ InEffect(written) = {}
    /\ disk = <<>>

\* The call put(key, value) fails in the state self: the value cannot be serialized, or
\* the transaction or its write raises.
PutFails(self, key, value) ==
    \/ _serialize(self, value).exc # ""
    \/ env_begin(self).exc # ""
    \/ str_encode(key).exc # ""
    \/ txn_put(self.disk, str_encode(key).val, _serialize(self, value).val).exc # ""

\* C5: put(key, value) with a string key never raises: it returns a boolean, false when
\* serializing the value or the write fails, and then the database is what it was before
\* the call, the earlier value of key included.
C5_PutNeverRaises ==
    [][(op'.name = "put" /\ IsStr(op'.key)) =>
          /\ ret'.exc = ""
          /\ ret'.val \in BOOLEAN
          /\ ret'.val = ~PutFails(Self, op'.key, op'.value)
          /\ ~ret'.val => disk' = disk]_vars

\* A put of a value that cannot be pickled, under a key that holds an earlier value.
C5_Witness ==
    /\ op.name = "put"
    /\ IsStr(op.key)
    /\ op.value = LambdaObj
    /\ ret = Ok(FALSE)
    /\ env = "open"
    /\ written[op.key.s] # Absent
    /\ str_encode(op.key).val \in DOMAIN disk

\* The methods that check the type of their key.
Keyed == {"put", "get", "delete", "has_key"}

\* C6: put, get, delete and has_key called with a key that is not a string raise
\* TypeError, whether or not a transaction could be opened, and leave the database as it is.
C6_NonStringKeyRaises ==
    [][(op'.name \in Keyed /\ ~IsStr(op'.key)) =>
          /\ ret' = Raise("TypeError")
          /\ disk' = disk]_vars

\* A delete with an integer key on a closed store: it raises TypeError, where a string
\* key would have returned false.
C6_Witness ==
    /\ op.name = "delete"
    /\ op.key = PyInt(1)
    /\ ret = Raise("TypeError")
    /\ env = "None"
    /\ disk # <<>>

\* The bytes data fail to decompress or to unpickle under the configuration of self.
DecodeFails(self, data) ==
    LET raw == IF self.compress THEN zlib_decompress(data) ELSE Ok(data)
    IN raw.exc # "" \/ pickle_loads(raw.val).exc # ""

\* The key bytes of the last call's key argument.
OpKeyBytes == str_encode(op.key).val

\* C7: get(key, default) returns the supplied default, and does not raise, when the
\* bytes stored under key fail to decompress or to decode.
C7_GetReturnsDefaultOnDecodeFailure ==
    (/\ op.name = "get"
     /\ IsStr(op.key)
     /\ env = "open"
     /\ OpKeyBytes \in DOMAIN disk
     /\ DecodeFails(Self, disk[OpKeyBytes]))
    => ret = Ok(op.default)

\* The value the bytes data hold, for bytes that decode under the configuration of self.
StoredValue(self, data) ==
    pickle_loads(IF self.compress THEN zlib_decompress(data).val ELSE data).val

\* The stored keys whose values deserialize under the configuration of the open store.
Decodable == {kb \in DOMAIN disk : ~DecodeFails(Self, disk[kb])}

\* C8: all_items() returns a mapping that holds exactly the stored keys whose values
\* deserialize, each with its stored value; an entry that fails to deserialize is left out.
C8_AllItemsLeavesOutUndecodable ==
    (op.name = "all_items" /\ env = "open") =>
        /\ ret.exc = ""
        /\ DOMAIN ret.val = {bytes_decode(kb) : kb \in Decodable}
        /\ \A kb \in Decodable : ret.val[bytes_decode(kb)] = StoredValue(Self, disk[kb])

C10_FromJsonTrueMeansAllStored ==
    (op.name = "from_json" /\ ret.exc = "" /\ ret.val) =>
        \A i \in 1 .. Len(op.file.items) :
            LET key == PyStr(op.file.items[i][1]) IN
            /\ has_key(Self, key) = Ok(TRUE)
            /\ get(Self, key, None_) = Ok(op.file.items[i][2])

----------------------------------------------------------------------------
(* Properties of the exporter *)

\* The entries of a trace with the given name.
Events(t, e) == {i \in DOMAIN t : t[i].e = e}

\* The export opened a store.
Opened(t) == Events(t, "LMDBStorage") # {}

\* The rows the export put into the store with success, in the order of the puts.
Puts(t) == SelectSeq(t, LAMBDA ev : ev.e = "put" /\ ev.res = "")

\* C11: close() on a closed store does nothing and does not raise; and the store that
\* save_to_lmdb opens in its with block is closed when the block is left, whether the
\* export returns or raises.
C11_CloseTwiceAndScopedClose ==
    [][/\ (op'.name = "close" /\ env = "None") =>
            (env' = "None" /\ ret' = Ok(None_) /\ disk' = disk)
       /\ (op'.name \in {"save_to_lmdb", "save"} /\ Opened(trace')) =>
            /\ env' = "None"
            /\ trace'[Len(trace') - 1].e = "__exit__"
            /\ trace'[Len(trace')].e = IF ret'.exc = "" THEN "info" ELSE "error"]_vars

\* An export that wrote a row and then raised out of its with block.
C11_Witness ==
    /\ op.name = "save_to_lmdb"
    /\ Opened(trace)
    /\ Puts(trace) # <<>>
    /\ ret.exc # ""
    /\ env = "None"

\* C12: whatever the compression setting, _deserialize gives back a value equal to the
\* one _serialize was given, and so get returns the value of the last successful put of
\* its key.
C12_RoundTrip ==
    /\ op.name = "_deserialize" => ret = Ok(op.value)
    /\ (op.name = "get" /\ IsStr(op.key) /\ written[op.key.s] # Absent) =>
            ret = Ok(written[op.key.s])

\* A record with an image and metadata was put into a compressing store and read back.
C12_Witness ==
    /\ op.name = "get"
    /\ compress
    /\ ret.exc = ""
    /\ ret.val.t = "QAData"
    /\ ret.val.s[2].s # <<>>
    /\ ret.val.s[3].s # <<>>

\* The elements of a sequence.
Range(seq) == {seq[i] : i \in DOMAIN seq}

\* The adapter's get_subsets and get_splits return, its loads succeed, and each of its
\* rows gives a record that can be written.
AllSucceed(self) ==
    /\ self.hub.subsets.exc = ""
    /\ \A sb \in Range(self.hub.subsets.val) :
        /\ self.hub.splits[sb].exc = ""
        /\ \A sp \in Range(self.hub.splits[sb].val) :
            /\ self.hub.parts[<<sb, sp>>].load = ""
            /\ Range(self.hub.parts[<<sb, sp>>].rows) \subseteq {"plain", "image"}

\* The rows of the adapter: subset, split, index from 0.
Triples(self) ==
    UNION {UNION {{<<sb, sp, i - 1>> : i \in DOMAIN self.hub.parts[<<sb, sp>>].rows} :
                    sp \in Range(self.hub.splits[sb].val)} :
             sb \in Range(self.hub.subsets.val)}

\* The key subset/split/index.
KeyOf(t) == PyStr(t[1] \o <<47>> \o t[2] \o <<47>> \o int_str(t[3]))

\* The record the adapter produces for the row, once its partition is loaded.
Produced(self, t) == get_row_data(load_dataset(self, t[2], t[1]).self, t[3]).val

\* The record with each of its images as JPEG bytes.
Normalized(rec) ==
    [rec EXCEPT !.s[2] = List([i \in DOMAIN rec.s[2].s |-> jpeg(rec.s[2].s[i])])]

\* What get returns from a store opened on the database d after the export.
Read(d, key) == get([disk |-> d, env |-> "open", compress |-> Config.compress], key, None_)

\* The database d holds exactly the keys of the adapter's rows, and the trace t shows
\* one successful put for each row, under the key of the row.
KeysOnce(self, d, t) ==
    /\ DOMAIN d = {str_encode(KeyOf(r)).val : r \in Triples(self)}
    /\ \A r \in Triples(self) :
            Cardinality({i \in Events(t, "put") :
                            /\ <<t[i].subset.s, t[i].split.s, t[i].irow>> = r
                            /\ t[i].key = KeyOf(r)
                            /\ t[i].res = ""}) = 1
    /\ Cardinality(Events(t, "put")) = Cardinality(Triples(self))

\* The export that the step makes is a save_to_lmdb into an empty store of an adapter
\* for which everything succeeds.
CleanExport == op'.name = "save_to_lmdb" /\ Opened(trace') /\ disk = <<>> /\ AllSucceed(dataset)

Partitions(self) ==
    UNION {{<<sb, sp>> : sp \in Range(self.hub.splits[sb].val)} :
             sb \in Range(self.hub.subsets.val)}

\* The partitions whose load raises.
Failing(self) == {p \in Partitions(self) : self.hub.parts[p].load # ""}

\* The adapter has several partitions, the load of exactly one of them raises, and the
\* rows of the others give records that can be written.
OneLoadFails(self) ==
    /\ self.hub.subsets.exc = ""
    /\ \A sb \in Range(self.hub.subsets.val) : self.hub.splits[sb].exc = ""
    /\ Cardinality(Partitions(self)) > 1
    /\ Cardinality(Failing(self)) = 1
    /\ \A p \in Partitions(self) : Range(self.hub.parts[p].rows) \subseteq {"plain", "image"}

\* C14: when the load of exactly one partition among several raises, save_to_lmdb does
\* not raise, puts no key for that partition, and puts every row of every other
\* partition, those after the failing one too.
C14_LmdbSkipsFailingPartition ==
    (op.name = "save_to_lmdb" /\ Opened(trace) /\ OneLoadFails(dataset)) =>
        /\ ret.exc = ""
        /\ \A i \in Events(trace, "put") :
                <<trace[i].subset.s, trace[i].split.s>> \notin Failing(dataset)
        /\ \A r \in Triples(dataset) :
                /\ \E i \in Events(trace, "put") : trace[i].key = KeyOf(r) /\ trace[i].res = ""
                /\ str_encode(KeyOf(r)).val \in DOMAIN disk

\* The load of the first partition raised (ValueError for a split that is not there) and
\* a row of the partition after it was put.
C14_Witness ==
    /\ op.name = "save_to_lmdb"
    /\ OneLoadFails(dataset)
    /\ ret.exc = ""
    /\ \E i, j \in DOMAIN trace :
        /\ i < j
        /\ trace[i].e = "load_dataset" /\ trace[i].res = "ValueError"
        /\ trace[j].e = "put" /\ trace[j].res = ""

\* The partitions the export tried to load.
Loaded(t) == {<<t[i].subset.s, t[i].split.s>> : i \in Events(t, "load_dataset")}

\* C15: when the load of one partition raises, whatever the type of the exception,
\* save_to_json skips the partition, goes on with the partitions that remain and does
\* not raise.
C15_JsonSkipsFailingPartition ==
    (op.name = "save_to_json" /\ trace # <<>> /\ OneLoadFails(dataset)) =>
        /\ ret.exc = ""
        /\ Loaded(trace) = Partitions(dataset)
        /\ \A i \in Events(trace, "json.dump") :
                <<trace[i].subset.s, trace[i].split.s>> \notin Failing(dataset)

\* get_subsets and get_splits of the adapter return.
Listed(self) ==
    /\ self.hub.subsets.exc = ""
    /\ \A sb \in Range(self.hub.subsets.val) : self.hub.splits[sb].exc = ""

\* What extract_row_data makes of the row.
RowKind(self, r) == self.hub.parts[<<r[1], r[2]>>].rows[r[3] + 1]

\* The entries of the trace with the given name that are about the row.
RowEvents(t, e, r) ==
    {i \in Events(t, e) : <<t[i].subset.s, t[i].split.s, t[i].irow>> = r}

\* The partitions the export loaded.
LoadedOk(t) ==
    {<<t[i].subset.s, t[i].split.s>> : i \in {j \in Events(t, "load_dataset") : t[j].res = ""}}

\* C16: in an export a row whose record construction raises is skipped and its
\* partition goes on: nothing is written for the row, every other row of the partition
\* is written, and each under the key of its own position counted from 0.
C16_RaisingRowSkipped ==
    /\ (op.name = "save_to_lmdb" /\ Opened(trace) /\ Listed(dataset)) =>
            \A r \in Triples(dataset) :
                /\ RowKind(dataset, r) = "raises" => RowEvents(trace, "put", r) = {}
                /\ RowKind(dataset, r) \in {"plain", "image"} =>
                    /\ \E i \in RowEvents(trace, "put", r) :
                            trace[i].key = KeyOf(r) /\ trace[i].res = ""
                    /\ Read(disk, KeyOf(r)).val.s[1] = KeyOf(r)
    /\ (op.name = "save_to_json" /\ trace # <<>> /\ Listed(dataset)) =>
            \A r \in {q \in Triples(dataset) : <<q[1], q[2]>> \in LoadedOk(trace)} :
                /\ RowKind(dataset, r) = "raises" => RowEvents(trace, "json.dump", r) = {}
                /\ RowKind(dataset, r) = "plain" =>
                    /\ \E i \in RowEvents(trace, "json.dump", r) : trace[i].res = ""
                    /\ \E i \in DOMAIN files :
                            files[i].k = "object" /\ files[i].v.s[1][2] = KeyOf(r)

\* Row 0 of a partition raised and row 1 was put under the key that ends in 1.
C16_Witness ==
    /\ op.name = "save_to_lmdb"
    /\ Listed(dataset)
    /\ \E r \in Triples(dataset) :
        /\ r[3] = 1
        /\ RowKind(dataset, <<r[1], r[2], 0>>) = "raises"
        /\ \E i \in RowEvents(trace, "get_row_data", <<r[1], r[2], 0>>) : trace[i].res = "KeyError"
        /\ \E i \in RowEvents(trace, "put", r) : trace[i].key = KeyOf(r) /\ trace[i].res = ""
        /\ DOMAIN disk = {str_encode(KeyOf(r)).val}

\* The position of x in the sequence seq of distinct elements.
Index(seq, x) == CHOOSE i \in DOMAIN seq : seq[i] = x

\* The put ev comes before the put ew in the order of the subsets, then of the splits,
\* then of the rows.
Before(self, ev, ew) ==
    LET sv == Index(self.hub.subsets.val, ev.subset.s)
        sw == Index(self.hub.subsets.val, ew.subset.s)
        pv == Index(self.hub.splits[ev.subset.s].val, ev.split.s)
        pw == Index(self.hub.splits[ew.subset.s].val, ew.split.s)
    IN \/ sv < sw
       \/ sv = sw /\ pv < pw
       \/ sv = sw /\ pv = pw /\ ev.irow < ew.irow

\* C17: an export of the adapter into a cleared store writes the rows in the order of
\* the subsets, then of the splits, then of the row indices, and writes the same rows
\* under the same keys, and leaves the same set of keys, as the export of the same
\* adapter before it.
C17_ReexportIsTheSame ==
    [][(op'.name = "save_to_lmdb" /\ Opened(trace') /\ disk = <<>>) =>
        /\ \A i, j \in DOMAIN Puts(trace') :
                i < j => Before(dataset, Puts(trace')[i], Puts(trace')[j])
        /\ DOMAIN disk' = {str_encode(Puts(trace')[i].key).val : i \in DOMAIN Puts(trace')}
        /\ Opened(trace) => Puts(trace') = Puts(trace)]_vars

\* An export of the subsets b and a, in this order, wrote b/train/0, a/train/0 and
\* a/train/1, in this order.
C17_Witness ==
    /\ op.name = "save_to_lmdb"
    /\ dataset.hub.subsets = Ok(<< <<98>>, <<97>> >>)
    /\ Len(Puts(trace)) = 3
    /\ Puts(trace)[1].key = KeyOf(<< <<98>>, Train, 0>>)
    /\ Puts(trace)[2].key = KeyOf(<< <<97>>, Train, 0>>)
    /\ Puts(trace)[3].key = KeyOf(<< <<97>>, Train, 1>>)
    /\ Cardinality(DOMAIN disk) = 3

\* The string is the name, whatever the case of its letters.
IsName(cs, name) ==
    Len(cs) = Len(name) /\ \A i \in DOMAIN name : cs[i] \in {name[i], name[i] - 32}

\* The export of the step is called without a dataset, or it is save called with a
\* format name that is neither json nor lmdb.
Rejected ==
    /\ op'.name \in {"save", "save_to_lmdb", "save_to_json"}
    /\ \/ op'.arg = None_
       \/ /\ op'.name = "save"
          /\ op'.format.t = "str"
          /\ ~IsName(op'.format.s, <<106, 115, 111, 110>>)
          /\ ~IsName(op'.format.s, <<108, 109, 100, 98>>)

\* C18: save, save_to_lmdb and save_to_json raise ValueError for a missing dataset, and
\* save for a format name that is not json or lmdb in any case of letters, before a
\* call of the adapter, a makedirs, an open of the file or of the store has happened.
C18_RejectedBeforeAnyIO ==
    [][Rejected =>
        /\ ret' = Raise("ValueError")
        /\ trace' = <<>>
        /\ UNCHANGED <<disk, files, dataset, env>>]_vars

\* save with the format xml raised ValueError on a database that an earlier export
\* filled and beside the file an earlier export wrote.
C18_Witness ==
    /\ op.name = "save"
    /\ op.arg # None_
    /\ op.format = PyStr(<<120, 109, 108>>)
    /\ ret = Raise("ValueError")
    /\ trace = <<>>
    /\ disk # <<>>
    /\ files # NoJson

\* C19: for a list of n options get_formatted_options returns a mapping of the first
\* min(n, 26) options, the i-th under the i-th letter of A..Z, in this order; the
\* options after the 26th are left out.
C19_LettersUpTo26 ==
    (op.name = "get_formatted_options" /\ op.arg.t = "list") =>
        LET n == Len(op.arg.s)
            k == IF n < 26 THEN n ELSE 26
        IN /\ ret.exc = ""
           /\ ret.val.t = "dict"
           /\ Len(ret.val.s) = k
           /\ \A i \in 1 .. k : ret.val.s[i] = <<PyStr(<<64 + i>>), op.arg.s[i]>>

\* Thirty options, each its own text, gave the 26 entries A..Z.
C19_Witness ==
    /\ op.name = "get_formatted_options"
    /\ op.arg.t = "list"
    /\ Len(op.arg.s) = 30
    /\ op.arg.s[30] = PyStr(<<51, 48>>)
    /\ Len(ret.val.s) = 26
    /\ ret.val.s[26] = <<PyStr(<<90>>), PyStr(<<50, 54>>)>>

\* C20: the number of rows that save_to_lmdb reports when it completes is the number of
\* rows whose put returned true during the export; a row whose put returned false is
\* not counted.
C20_ReportedCountIsRowsWritten ==
    (op.name = "save_to_lmdb" /\ Opened(trace) /\ ret.exc = "") =>
        /\ trace[Len(trace)].e = "info"
        /\ trace[Len(trace)].irow = Len(Puts(trace))

\* C21: when get_subsets() returns an empty list, save_to_lmdb and save_to_json both
\* take the single placeholder subset 'default' and export its splits and rows.
C21_EmptySubsetsUseDefault ==
    (op.name \in {"save_to_lmdb", "save_to_json"} /\ trace # <<>>
        /\ dataset.hub.subsets = Ok(<<>>)) =>
        /\ \E i \in Events(trace, "get_splits") : trace[i].subset = PyStr(DefaultSubset)
        /\ Loaded(trace) =
                {<<DefaultSubset, sp>> : sp \in Range(dataset.hub.splits[DefaultSubset].val)}

\* The tokens of a file without its line breaks.
Tokens(file) == SelectSeq(file, LAMBDA t : t.k # "\n")

\* A well-formed JSON array: an opening bracket, complete elements separated by exactly
\* one comma, and a closing bracket.
WellFormed(file) ==
    LET toks == Tokens(file)
        n == Len(toks)
    IN /\ n >= 2
       /\ toks[1].k = "["
       /\ toks[n].k = "]"
       /\ n = 2 \/ n % 2 = 1
       /\ \A i \in 2 .. n - 1 : toks[i].k = (IF i % 2 = 0 THEN "object" ELSE ",")

\* The rows that json.dump has written in full.
Dumped(t) == {i \in Events(t, "json.dump") : t[i].res = ""}

\* C22: the file written by save_to_json is a well-formed JSON array with one complete
\* element per row counted as written, after any mix of successful rows, failing rows
\* and skipped partitions.
C22_FileIsWellFormedArray ==
    (op.name = "save_to_json" /\ trace # <<>> /\ files # NoJson) =>
        /\ WellFormed(files)
        /\ Cardinality({i \in 1 .. Len(files) : files[i].k = "object"})
                = Cardinality(Dumped(trace))

\* C26: whenever from_json does not return true (it raises, or it returns false), the
\* store's contents are the same as before the call, also when clear_existing is true.
C26_FailedFromJsonKeepsStore ==
    [][(op'.name = "from_json" /\ ret' # Ok(TRUE)) => disk' = disk]_vars

\* What a store operation returns when it fails.
FailureValue(call) ==
    CASE call.name \in {"put", "delete", "has_key", "clear"} -> Ok(FALSE)
      [] call.name = "get" -> Ok(call.default)
      [] call.name = "count_keys" -> Ok(0)
      [] call.name \in {"get_keys", "all_items"} -> Ok(<<>>)

\* C28: after close(), every store operation called with a string key degrades to its
\* failure value without raising and without touching the data on disk: put, delete,
\* has_key and clear return false, get returns the default, count_keys returns 0,
\* get_keys an empty list and all_items an empty mapping.
C28_ClosedStoreDegrades ==
    [][(/\ env = "None"
        /\ op'.name \in Keyed \cup {"clear", "count_keys", "get_keys", "all_items"}
        /\ op'.name \in Keyed => IsStr(op'.key)) =>
            /\ ret' = FailureValue(op')
            /\ disk' = disk]_vars

\* A put with a string key on a closed store that holds data.
C28_Witness ==
    /\ env = "None"
    /\ disk # <<>>
    /\ op.name = "put"
    /\ IsStr(op.key)
    /\ ret = Ok(FALSE)

\* C25: get_keys() returns every key currently stored exactly once, in ascending order of
\* the key bytes; its length equals count_keys() and its key set equals the key set of
\* all_items() when every value deserializes.
C25_GetKeysSortedAndComplete ==
    (op.name = "get_keys" /\ env = "open") =>
        /\ ret.exc = ""
        /\ {EncodeChars(ret.val[i]) : i \in 1 .. Len(ret.val)} = DOMAIN disk
        /\ \A i, j \in 1 .. Len(ret.val) :
              i < j => BytesLess(EncodeChars(ret.val[i]), EncodeChars(ret.val[j]))
        /\ Len(ret.val) = count_keys(Self).val
        /\ Decodable = DOMAIN disk =>
              {ret.val[i] : i \in 1 .. Len(ret.val)} = DOMAIN all_items(Self).val

\* get_keys() on an open store that holds two keys with values that deserialize.
C25_Witness ==
    /\ op.name = "get_keys"
    /\ env = "open"
    /\ Len(ret.val) = 2
    /\ Decodable = DOMAIN disk

\* The record of row r of the Hub's partition (r[1], r[2]), as the adapter extracts it
\* while its names are those of the partition.
RecordOf(self, r) ==
    extract_row_data([self EXCEPT !.subset = PyStr(r[1]), !.split = PyStr(r[2])],
                     RowKind(self, r), r[3]).val

\* The images that can be normalized: images in memory that can be saved.
Succeeded(images) == SelectSeq(images, LAMBDA img : img.t = "Image" /\ img.s # <<>>)

\* The record with the JPEG bytes of those of its images that can be normalized.
Kept(rec) ==
    [rec EXCEPT !.s[2] = List([i \in DOMAIN Succeeded(rec.s[2].s) |->
                                  jpeg(Succeeded(rec.s[2].s)[i])])]

\* The row that an entry of the trace is about.
RowOf(ev) == <<ev.subset.s, ev.split.s, ev.irow>>

\* C27: an export never stores rows of one partition under the keys of another: every
\* key subset/split/i written by save_to_lmdb belongs to a partition whose load
\* succeeded and holds the record of row i of that partition, also after a failed load
\* has left the adapter with the rows loaded before and the names of the failed partition.
C27_KeysHoldRowsOfTheirPartition ==
    (op.name = "save_to_lmdb" /\ Opened(trace)) =>
        \A i \in Events(trace, "put") :
            LET r == RowOf(trace[i]) IN
            /\ dataset.hub.parts[<<r[1], r[2]>>].load = ""
            /\ <<r[1], r[2]>> \in LoadedOk(trace)
            /\ r[3] + 1 \in DOMAIN dataset.hub.parts[<<r[1], r[2]>>].rows
            /\ trace[i].key = KeyOf(r)
            /\ trace[i].res = "" => Read(disk, KeyOf(r)) = Ok(Kept(RecordOf(dataset, r)))

\* After the export the adapter holds the rows of the partition loaded first under the
\* names of the partition whose load failed, and rows were written.
C27_Witness ==
    /\ op.name = "save_to_lmdb"
    /\ Opened(trace)
    /\ dataset.split = PyStr(Test)
    /\ dataset.hub.parts[<<dataset.subset.s, Test>>].load # ""
    /\ dataset.dataset.rows # <<>>
    /\ \E i \in Events(trace, "put") : trace[i].res = "" /\ trace[i].split = PyStr(Train)

\* The rows of the partitions the export loaded whose records hold images and can be
\* written.
ImageRows(self, t) ==
    {r \in Triples(self) : /\ <<r[1], r[2]>> \in LoadedOk(t)
                            /\ RowKind(self, r) \in {"image", "images"}}

C29_AdapterRecordUnchanged ==
    (op.name = "save_to_lmdb" /\ Opened(trace) /\ Listed(dataset)) =>
        \A i \in Events(trace, "row_data") :
            LET r == RowOf(trace[i])
                stored == Read(disk, KeyOf(r))
            IN /\ trace[i].key = RecordOf(dataset, r)
               /\ RowKind(dataset, r) \in {"image", "images"} =>
                    /\ stored.exc = ""
                    /\ stored.val.s[2].s # <<>>
                    /\ \A k \in DOMAIN stored.val.s[2].s : stored.val.s[2].s[k].t = "bytes"

\* A row with an image in memory was written: the adapter's record holds the image and
\* the stored record its JPEG bytes.
C29_Witness ==
    /\ op.name = "save_to_lmdb"
    /\ Opened(trace)
    /\ Listed(dataset)
    /\ \E i \in Events(trace, "row_data") :
            /\ trace[i].key.s[2] = List(<<PILImage(trace[i].irow)>>)
            /\ Read(disk, KeyOf(RowOf(trace[i]))).val.s[2] =
                    List(<<jpeg(PILImage(trace[i].irow))>>)

\* The elements of a set of numbers in ascending order.
RECURSIVE Ascending(_)
Ascending(S) ==
    IF S = {} THEN <<>>
    ELSE LET least == CHOOSE x \in S : \A y \in S : x <= y
         IN <<least>> \o Ascending(S \ {least})

\* The records of the rows with the given indices, in ascending order of the index,
\* without the rows whose extraction raises.
RecordsOf(self, idx) ==
    LET good == Ascending({i \in idx : self.dataset.rows[i + 1] # "raises"})
    IN [j \in DOMAIN good |-> extract_row_data(self, self.dataset.rows[good[j] + 1], good[j]).val]

\* max_samples is None or a positive integer.
IsMaxSamples(m) == m = None_ \/ (m.t \in {"int", "bool"} /\ m.s[1] > 0)

\* C30: get_samples(max_samples, random_sample, seed) on a loaded dataset of n rows
\* returns the records of distinct row indices in ascending order of the index; it
\* covers min(max_samples, n) indices, all n when max_samples is None, the first ones
\* when random_sample is false; a row whose extraction raises is left out without
\* failing the call; a max_samples that is not a positive integer raises ValueError.
C30_GetSamples ==
    (op.name = "get_samples" /\ dataset.dataset.loaded) =>
        LET n == Len(dataset.dataset.rows)
            m == op.max_samples
            count == IF m = None_ \/ m.s[1] > n THEN n ELSE m.s[1]
        IN IF ~IsMaxSamples(m) THEN ret = Raise("ValueError")
           ELSE /\ ret.exc = ""
                /\ \E idx \in SUBSET (0 .. n - 1) :
                        /\ Cardinality(idx) = count
                        /\ ~op.random_sample => idx = 0 .. count - 1
                        /\ ret.val = RecordsOf(dataset, idx)

\* A random sample of two of three rows that is not the first two rows.
C30_Witness ==
    /\ op.name = "get_samples"
    /\ op.random_sample
    /\ op.max_samples = PyInt(2)
    /\ dataset.dataset.rows = <<"plain", "plain", "plain">>
    /\ ret = Ok(<<extract_row_data(dataset, "plain", 0).val,
                  extract_row_data(dataset, "plain", 2).val>>)

\* What a reader sees of the database d.
Seen(d) == all_items([disk |-> d, env |-> "open", compress |-> compress])

\* C24: every public store operation, from_json included, is atomic: a reader that runs
\* between two steps of a from_json in progress sees the store as it was before the
\* call or as it is after it, never the store with the call partly applied.
C24_FromJsonIsAtomic ==
    (op.name = "from_json" /\ op.todo # <<>> /\ op.seen # Unread) =>
        op.seen \in {Seen(op.before),
                     Seen(from_json([disk |-> op.before, env |-> "open", compress |-> compress],
                                    op.file, op.clear_existing).disk)}

====
